---- MODULE Spec2Model ----
(***************************************************************************)
(* Analog WakaTime plugin: the local activity buffer (LocalDatabase), the  *)
(* tick-based accumulator (ActivityTracker) and the sync scheduling of the *)
(* extension entry point (activate / deactivate).                          *)
(*                                                                         *)
(* Time: Date.now() is modelled by the variable now, counted in units of   *)
(* UNIT_MS milliseconds (30 days in milliseconds does not fit TLC's        *)
(* integers). Every duration constant of the program is a multiple of the  *)
(* unit. Two handlers may read the same clock value: the clock advances    *)
(* only in the environment's clock actions.                                *)
(***************************************************************************)
EXTENDS Integers, Sequences, FiniteSets, Bags, TLC

UNIT_MS == 1000 \div 10

\* ------------------------------------------------------------- bounds
MaxRecords == 2
MaxDbSkew == 1
MaxTrackerSeconds == 5
MaxKeystrokes == 1
MaxChanges == 1
MaxRanges == 2
MaxLedgerKeystrokes == 4
MaxFlushSeconds == 2
MaxInFlight == 2
MaxExtSeconds == 1
MaxCapSeconds == 3
MaxIdleSeconds == 1

\* ------------------------------------------------- program constants
THIRTY_DAYS == 30 * 24 * 60 * 60 * (1000 \div UNIT_MS)
DAY_UNITS == 24 * 60 * 60 * (1000 \div UNIT_MS)
HOUR_UNITS == 60 * 60 * (1000 \div UNIT_MS)
ONE_SECOND == 1000 \div UNIT_MS
INACTIVITY_THRESHOLD == 120000 \div UNIT_MS
TIME_UPDATE_INTERVAL == 1000 \div UNIT_MS
MAX_TIME_PER_TICK == 2000 \div UNIT_MS
MAX_TIME_PER_SAVE_INTERVAL == 35000 \div UNIT_MS

Files == {"a.ts", "b.py"}
FileOrder == <<"a.ts", "b.py">>
DocLanguage == [f \in Files |-> IF f = "a.ts" THEN "typescript" ELSE "python"]

VARIABLES
    now,          \* Date.now(), in units
    tz,           \* offset of the local time zone from UTC, in units
    activities,   \* LocalDatabase.activities
    disk,         \* content of analog-wakatime-db.json
    nextId,       \* ghost: identity of the next record created
    lastOp,       \* ghost: the operation that produced this state
    activeFiles,             \* ActivityTracker.activeFiles (the ledger)
    sessionStart,            \* ActivityTracker.sessionStart
    totalKeystrokes,         \* ActivityTracker.totalKeystrokes
    currentActiveFile,       \* ActivityTracker.currentActiveFile ("" is null)
    lastTickTime,            \* ActivityTracker.lastTickTime
    isUserActive,            \* ActivityTracker.isUserActive
    lastActivityTime,        \* ActivityTracker.lastActivityTime
    intervalTimeAccumulated, \* ActivityTracker.intervalTimeAccumulated
    tracking,                \* the tick timer and the listeners are registered
    windowFocused,           \* vscode.window.state.focused
    hostActive,              \* the host's active file document ("" if none)
    docs,                    \* the file documents the host works with
    edits,                   \* the edit events the host reports
    prevTickAt,              \* ghost: clock value of the previous tickTime call
    ingested,                \* ghost: records made of each file's counters since the last resetStats
    saveInterval,            \* the flush timer is armed
    syncInterval,            \* the sync timer is armed
    statusUpdateInterval,    \* the status bar timer is armed
    live,                    \* activityTracker, apiClient and localDb are defined
    subscribed,              \* context.subscriptions are not disposed yet
    apiToken,                \* the configuration holds a non-empty apiToken
    clientToken,             \* ApiClient.apiToken is non-empty
    inflight,                \* bag of the bulk requests awaiting their response
    pendingRetry,            \* ghost: ids of the batches failed since the last sync run
    held                     \* the snapshot a caller of getStats holds

dbVars == <<activities, disk, nextId>>
envVars == <<now, tz>>
trkVars == <<activeFiles, sessionStart, totalKeystrokes, currentActiveFile,
             lastTickTime, isUserActive, lastActivityTime,
             intervalTimeAccumulated, tracking, prevTickAt, ingested>>
hostVars == <<windowFocused, hostActive, docs, edits>>
extVars == <<saveInterval, syncInterval, statusUpdateInterval, live, subscribed,
             apiToken, clientToken, inflight, pendingRetry, held>>
vars == <<now, tz, activities, disk, nextId, lastOp, trkVars, hostVars, extVars>>

\* -------------------------------------------------------------- helpers
Max(a, b) == IF a >= b THEN a ELSE b
Min(a, b) == IF a <= b THEN a ELSE b
Range(s) == {s[i] : i \in DOMAIN s}

\* new Date(midTime).toISOString().split('T')[0]: the UTC calendar day
DateStr(t) == t \div DAY_UNITS
\* new Date(midTime).getHours(): the hour of day in the local time zone
LocalHour(t) == ((t + tz) \div HOUR_UNITS) % 24

\* ------------------------------------------------------- LocalDatabase
NoFile == [state |-> "absent", content |-> <<>>]

\* loadDatabase: the parsed file, or the empty list
loadDatabase(d) ==
    IF d.state = "list" THEN d.content ELSE <<>>

\* faulty variant: only the newest record is written
saveDatabase_NewestOnly(d, acts, ok) ==
    IF ok THEN [state |-> "list",
                content |-> IF acts = <<>> THEN acts ELSE <<acts[Len(acts)]>>]
    ELSE d

\* saveDatabase: writeFileSync of the whole list; a failed write is caught
saveDatabase(d, acts, ok) ==
    IF ok THEN [state |-> "list", content |-> acts] ELSE d

\* faulty variant: the signed difference is stored, without Math.max(0, .)
NewRecords_Signed(fa, t, id) ==
    LET language == IF fa.language = "" THEN "unknown" ELSE fa.language
        timeSpentSeconds == fa.timeSpent \div ONE_SECOND
        netLines == fa.linesAdded - fa.linesDeleted
        midTime == (fa.firstActive + fa.lastActive) \div 2
    IN  IF timeSpentSeconds <= 0 /\ fa.linesAdded = 0 /\ fa.linesDeleted = 0
        THEN <<>>
        ELSE IF timeSpentSeconds > 0 \/ netLines # 0
        THEN << [id |-> id,
                 language |-> language,
                 lines |-> netLines,
                 time |-> timeSpentSeconds,
                 date |-> DateStr(midTime),
                 hour |-> LocalHour(midTime),
                 synced |-> FALSE,
                 timestamp |-> t] >>
        ELSE <<>>

\* faulty variant: a started second is stored as a whole one
NewRecords_RoundsUp(fa, t, id) ==
    LET language == IF fa.language = "" THEN "unknown" ELSE fa.language
        timeSpentSeconds == (fa.timeSpent + ONE_SECOND - 1) \div ONE_SECOND
        netLines == fa.linesAdded - fa.linesDeleted
        midTime == (fa.firstActive + fa.lastActive) \div 2
    IN  IF timeSpentSeconds <= 0 /\ fa.linesAdded = 0 /\ fa.linesDeleted = 0
        THEN <<>>
        ELSE IF timeSpentSeconds > 0 \/ netLines # 0
        THEN << [id |-> id,
                 language |-> language,
                 lines |-> Max(0, netLines),
                 time |-> timeSpentSeconds,
                 date |-> DateStr(midTime),
                 hour |-> LocalHour(midTime),
                 synced |-> FALSE,
                 timestamp |-> t] >>
        ELSE <<>>

\* the record saveActivity builds for one file of the snapshot, or none
NewRecords(fa, t, id) ==
    LET language == IF fa.language = "" THEN "unknown" ELSE fa.language
        timeSpentSeconds == fa.timeSpent \div ONE_SECOND
        netLines == fa.linesAdded - fa.linesDeleted
        midTime == (fa.firstActive + fa.lastActive) \div 2
    IN  IF timeSpentSeconds <= 0 /\ fa.linesAdded = 0 /\ fa.linesDeleted = 0
        THEN <<>>
        ELSE IF timeSpentSeconds > 0 \/ netLines # 0
        THEN << [id |-> id,
                 language |-> language,
                 lines |-> Max(0, netLines),
                 time |-> timeSpentSeconds,
                 date |-> DateStr(midTime),
                 hour |-> LocalHour(midTime),
                 synced |-> FALSE,
                 timestamp |-> t] >>
        ELSE <<>>

RECURSIVE SaveLoop(_, _, _, _, _)
SaveLoop(acts, files, order, t, id) ==
    IF order = <<>> THEN acts
    ELSE LET f == Head(order)
             add == IF f \in DOMAIN files THEN NewRecords(files[f], t, id) ELSE <<>>
         IN  SaveLoop(acts \o add, files, Tail(order), t, id + Len(add))

\* saveActivity(stats): one timestamp for the call, one record per file
saveActivity(acts, stats, t, id) ==
    SaveLoop(acts, stats.activeFiles, FileOrder, t, id)

\* faulty variant: only the newest unsynced record is taken
getUnsyncedActivities_Newest(acts) ==
    LET u == SelectSeq(acts, LAMBDA a : ~a.synced)
    IN  IF u = <<>> THEN u ELSE <<u[Len(u)]>>

getUnsyncedActivities(acts) ==
    SelectSeq(acts, LAMBDA a : ~a.synced)

\* faulty variant: marks every stored record, whatever was sent
markAsSynced_All(acts, batch) ==
    [i \in DOMAIN acts |-> [acts[i] EXCEPT !.synced = TRUE]]

markAsSynced(acts, batch) ==
    LET syncedTimestamps == {batch[i].timestamp : i \in DOMAIN batch}
    IN  [i \in DOMAIN acts |->
            IF acts[i].timestamp \in syncedTimestamps
            THEN [acts[i] EXCEPT !.synced = TRUE]
            ELSE acts[i]]

\* faulty variant: expiry by age alone, the synced flag is not consulted
cleanupOldRecords_AgeOnly(acts, t) ==
    SelectSeq(acts, LAMBDA a : a.timestamp > t - THIRTY_DAYS)

\* faulty variant: a record aged exactly 30 days is kept
cleanupOldRecords_KeepBoundary(acts, t) ==
    SelectSeq(acts, LAMBDA a : ~a.synced \/ a.timestamp >= t - THIRTY_DAYS)

cleanupOldRecords(acts, t) ==
    LET thirtyDaysAgo == t - THIRTY_DAYS
    IN  SelectSeq(acts, LAMBDA a : ~a.synced \/ a.timestamp > thirtyDaysAgo)

getTotalTime(acts) ==
    LET RECURSIVE Sum(_)
        Sum(s) == IF s = <<>> THEN 0 ELSE Head(s).time + Sum(Tail(s))
    IN  Sum(acts)

getUnsyncedCount(acts) == Len(SelectSeq(acts, LAMBDA a : ~a.synced))

\* ---------------------------------------------- buffer operations (actions)
\* Snapshots handed to saveActivity when the buffer is driven on its own.
HarnessTimes == {0, 2500 \div UNIT_MS}
HarnessLines == {<<0, 0>>}
HarnessActivity(f) ==
    {[filePath |-> f, language |-> DocLanguage[f], keystrokes |-> 0,
      linesAdded |-> l[1], linesDeleted |-> l[2], timeSpent |-> ts,
      firstActive |-> now, lastActive |-> now] :
        ts \in HarnessTimes, l \in HarnessLines}
HarnessFiles ==
    UNION {[F -> UNION {HarnessActivity(f) : f \in F}] : F \in SUBSET Files \ {{}}}
HarnessStats ==
    {[activeFiles |-> fs] :
        fs \in {g \in HarnessFiles : \A f \in DOMAIN g : g[f].filePath = f}}

Ids(acts) == {acts[i].id : i \in DOMAIN acts}
Keys(acts) == {acts[i].timestamp : i \in DOMAIN acts}
SubSeqOf(acts, I) == SelectSeq(acts, LAMBDA a : a.id \in I)
Removed(pre, post) == SelectSeq(pre, LAMBDA a : a.id \notin Ids(post))
Flipped(pre, post) ==
    {a.id : a \in {x \in Range(pre) : ~x.synced /\ \E y \in Range(post) : y.id = x.id /\ y.synced}}

\* ghost: an earlier write failed and the file lacks what memory holds
Behind == loadDatabase(disk) # activities

\* localDb.saveActivity(stats)
DbSaveActivity(oks) ==
    \E stats \in HarnessStats, ok \in oks :
        LET acts == saveActivity(activities, stats, now, nextId)
        IN  /\ Len(acts) <= MaxRecords
            /\ activities' = acts
            /\ disk' = saveDatabase(disk, acts, ok)
            /\ nextId' = nextId + (Len(acts) - Len(activities))
            /\ lastOp' = [op |-> "saveActivity", keys |-> {now},
                          ok |-> ok, behind |-> Behind]
            /\ UNCHANGED <<envVars, trkVars, hostVars, extVars>>

\* localDb.markAsSynced(batch), batch any list of records read from the buffer
DbMarkAsSynced(oks) ==
    \E I \in SUBSET Ids(activities), ok \in oks :
        LET batch == SubSeqOf(activities, I)
            acts == markAsSynced(activities, batch)
        IN  /\ activities' = acts
            /\ disk' = saveDatabase(disk, acts, ok)
            /\ lastOp' = [op |-> "markAsSynced", keys |-> Keys(batch),
                          ok |-> ok, behind |-> Behind]
            /\ UNCHANGED <<envVars, nextId, trkVars, hostVars, extVars>>

\* localDb.cleanupOldRecords()
DbCleanup(oks) ==
    \E ok \in oks :
        LET acts == cleanupOldRecords(activities, now)
        IN  /\ activities' = acts
            /\ disk' = saveDatabase(disk, acts, ok)
            /\ lastOp' = [op |-> "cleanupOldRecords",
                          keys |-> Keys(Removed(activities, acts)),
                          ok |-> ok, behind |-> Behind]
            /\ UNCHANGED <<envVars, nextId, trkVars, hostVars, extVars>>

\* new LocalDatabase(context) in a fresh process: the list is read from disk
DbRestart ==
    LET acts == loadDatabase(disk)
    IN  /\ activities' = acts
        /\ nextId' = 1 + Max(0, CHOOSE m \in Ids(acts) \cup {0} :
                                   \A k \in Ids(acts) \cup {0} : m >= k)
        /\ lastOp' = [op |-> "restart", keys |-> {}]
        /\ UNCHANGED <<envVars, disk, trkVars, hostVars, extVars>>

\* the clock moves by one unit or by the retention window
DbClockSteps == {1, THIRTY_DAYS}
DbAdvance ==
    \E d \in DbClockSteps :
        /\ now + d <= THIRTY_DAYS + MaxDbSkew
        /\ (now + d) % THIRTY_DAYS <= MaxDbSkew
        /\ now' = now + d
        /\ lastOp' = [op |-> "clock", keys |-> {}]
        /\ UNCHANGED <<tz, dbVars, trkVars, hostVars, extVars>>

\* new ActivityTracker() at clock value t
TrackerInit(t) ==
    /\ activeFiles = <<>>
    /\ sessionStart = t
    /\ totalKeystrokes = 0
    /\ currentActiveFile = ""
    /\ lastTickTime = t
    /\ isUserActive = FALSE
    /\ lastActivityTime = t
    /\ intervalTimeAccumulated = 0
    /\ tracking = TRUE
    /\ prevTickAt = t
    /\ ingested = [f \in Files |-> 0]

\* the module state when activate() returns
\* no snapshot taken yet
NoStats == [activeFiles |-> <<>>]

\* the extension after activate, whatever snapshot a caller holds
ExtActivated ==
    /\ saveInterval = TRUE
    /\ syncInterval = TRUE
    /\ statusUpdateInterval = TRUE
    /\ live = TRUE
    /\ subscribed = TRUE
    /\ apiToken = TRUE
    /\ clientToken = apiToken
    /\ inflight = EmptyBag
    /\ pendingRetry = {}

ExtInit ==
    /\ ExtActivated
    /\ held = NoStats

\* the buffer driven on its own: no tracker events
TrackerIdle ==
    /\ TrackerInit(0)
    /\ windowFocused = TRUE
    /\ hostActive = ""
    /\ docs = Files
    /\ edits = {}

BufferInit ==
    /\ now = 0
    /\ tz = 0
    /\ activities = <<>>
    /\ disk = NoFile
    /\ nextId = 1

DbInit ==
    /\ BufferInit
    /\ TrackerIdle
    /\ ExtInit
    /\ lastOp = [op |-> "init", keys |-> {}]

\* one LocalDatabase instance, storage writable
DbNext ==
    \/ DbSaveActivity({TRUE})
    \/ DbMarkAsSynced({TRUE})
    \/ DbCleanup({TRUE})
    \/ DbAdvance
SpecDb == DbInit /\ [][DbNext]_vars

\* the buffer across process lifetimes, storage writes may fail
DbCrashNext ==
    \/ DbSaveActivity(BOOLEAN)
    \/ DbMarkAsSynced(BOOLEAN)
    \/ DbCleanup(BOOLEAN)
    \/ DbRestart
    \/ DbAdvance
SpecDbCrash == DbInit /\ [][DbCrashNext]_vars

\* snapshots handed to saveActivity: sub-second and whole-second times, lines
\* added only, deleted only, as many added as deleted, none
IngestTimes == {0, 500 \div UNIT_MS, 2500 \div UNIT_MS}
IngestLines == {<<0, 0>>, <<2, 0>>, <<0, 3>>, <<2, 2>>}
IngestActivity(f) ==
    {[filePath |-> f, language |-> DocLanguage[f], keystrokes |-> 0,
      linesAdded |-> l[1], linesDeleted |-> l[2], timeSpent |-> ts,
      firstActive |-> 0, lastActive |-> 0] :
        ts \in IngestTimes, l \in IngestLines}
IngestStats ==
    {[activeFiles |-> fs] :
        fs \in UNION {{g \in [F -> UNION {IngestActivity(f) : f \in F}] :
                          \A f \in F : g[f].filePath = f} :
                      F \in SUBSET Files \ {{}}}}

\* the buffer and a caller that holds one of these snapshots
IngestInit ==
    /\ BufferInit
    /\ TrackerIdle
    /\ ExtActivated
    /\ held \in IngestStats
    /\ lastOp = [op |-> "init", keys |-> {}]

\* localDb.saveActivity(stats) with the snapshot the caller holds
Ingest ==
    LET acts == saveActivity(activities, held, now, nextId)
    IN  /\ Len(acts) <= MaxRecords
        /\ activities' = acts
        /\ disk' = saveDatabase(disk, acts, TRUE)
        /\ nextId' = nextId + (Len(acts) - Len(activities))
        /\ lastOp' = [op |-> "saveActivity", keys |-> {now}]
        /\ UNCHANGED <<envVars, trkVars, hostVars, extVars>>

\* record creation on its own: snapshots in, records marked, the clock
IngestNext ==
    \/ Ingest
    \/ DbMarkAsSynced({TRUE})
    \/ DbAdvance
SpecIngest == IngestInit /\ [][IngestNext]_vars

\* snapshots taken at the end of a UTC day, in a time zone at, ahead of or
\* behind UTC: resources first seen at 22:00 or 23:00 and last seen at 23:00
\* or 24:00
ZoneOffsets == {0, 3 * HOUR_UNITS, 0 - 5 * HOUR_UNITS}
ZoneFirstSeen == {22 * HOUR_UNITS, 23 * HOUR_UNITS}
ZoneLastSeen == {23 * HOUR_UNITS, DAY_UNITS}
ZoneActivity(f) ==
    {[filePath |-> f, language |-> DocLanguage[f], keystrokes |-> 0,
      linesAdded |-> l, linesDeleted |-> 0, timeSpent |-> 2 * ONE_SECOND,
      firstActive |-> a, lastActive |-> b] :
        l \in {0, 1}, a \in ZoneFirstSeen, b \in ZoneLastSeen}
ZoneStats ==
    {[activeFiles |-> fs] :
        fs \in UNION {{g \in [F -> UNION {ZoneActivity(f) : f \in F}] :
                          \A f \in F : g[f].filePath = f} :
                      F \in SUBSET Files \ {{}}}}
ZoneInit ==
    /\ now = DAY_UNITS
    /\ tz \in ZoneOffsets
    /\ activities = <<>>
    /\ disk = NoFile
    /\ nextId = 1
    /\ TrackerIdle
    /\ ExtActivated
    /\ held \in ZoneStats
    /\ lastOp = [op |-> "init", keys |-> {}]
ZoneNext ==
    \/ Ingest
    \/ DbMarkAsSynced({TRUE})
SpecZone == ZoneInit /\ [][ZoneNext]_vars

\* one LocalDatabase instance, storage writes may fail (records are added
\* and marked; the sweep writes through the same saveDatabase)
WriteFailNext ==
    \/ DbSaveActivity(BOOLEAN)
    \/ DbMarkAsSynced(BOOLEAN)
    \/ DbAdvance
SpecWriteFail == DbInit /\ [][WriteFailNext]_vars

\* what JSON.parse gives for a file that holds {} : a value that is not an
\* array (written as a one-element list with a mark, to keep it comparable
\* with lists of records)
JsonObject == <<[json |-> "object"]>>
IsArray(v) == ~(Len(v) = 1 /\ "json" \in DOMAIN v[1])

\* the files the constructor may find: none, one that cannot be read, one
\* that JSON.parse rejects, one that holds {}, one written by saveDatabase
StoredLists ==
    {saveActivity(<<>>, stats, 0, 1) : stats \in HarnessStats}
        \cup {markAsSynced(saveActivity(<<>>, stats, 0, 1),
                           saveActivity(<<>>, stats, 0, 1)) : stats \in HarnessStats}
DiskContents ==
    {NoFile,
     [state |-> "unreadable", content |-> <<>>],
     [state |-> "unparseable", content |-> <<>>],
     [state |-> "list", content |-> JsonObject]}
        \cup {[state |-> "list", content |-> acts] : acts \in StoredLists}

\* the operations of the buffer, and whether one throws a TypeError on a
\* value that is not an array: push, filter and reduce are not functions of
\* it and for..of cannot iterate it; saveActivity reaches push only for a
\* resource that gets a record
BufferOps ==
    {"saveActivity", "getUnsyncedActivities", "markAsSynced",
     "cleanupOldRecords", "getTotalTime", "getUnsyncedCount"}
Throws(op, v, stats) ==
    /\ ~IsArray(v)
    /\ op = "saveActivity" => saveActivity(<<>>, stats, now, nextId) # <<>>

\* new LocalDatabase(context) on any of these files
LoadInit ==
    /\ now = 0
    /\ tz = 0
    /\ disk \in DiskContents
    /\ activities = loadDatabase(disk)
    /\ nextId = 1 + Len(activities)
    /\ TrackerIdle
    /\ ExtInit
    /\ lastOp = [op |-> "loadDatabase", keys |-> {}, threw |-> FALSE]

\* an operation called on a loaded value that is not an array: it throws, or
\* (saveActivity without a new record) writes the value back
CallOnNonArray ==
    /\ ~IsArray(activities)
    /\ \E op \in BufferOps, stats \in HarnessStats :
          /\ lastOp' = [op |-> op, keys |-> {},
                        threw |-> Throws(op, activities, stats)]
          /\ disk' = IF op = "saveActivity" /\ ~Throws(op, activities, stats)
                     THEN saveDatabase(disk, activities, TRUE) ELSE disk
    /\ UNCHANGED <<envVars, activities, nextId, trkVars, hostVars, extVars>>

\* the two queries on a list of records
Query ==
    /\ IsArray(activities)
    /\ \E op \in {"getUnsyncedActivities", "getTotalTime", "getUnsyncedCount"} :
          lastOp' = [op |-> op,
                     keys |-> Keys(getUnsyncedActivities(activities)),
                     threw |-> FALSE]
    /\ UNCHANGED <<envVars, dbVars, trkVars, hostVars, extVars>>

\* the buffer after the constructor has read the file, storage writable
LoadNext ==
    \/ IsArray(activities) /\ DbSaveActivity({TRUE})
    \/ IsArray(activities) /\ DbMarkAsSynced({TRUE})
    \/ IsArray(activities) /\ DbCleanup({TRUE})
    \/ Query
    \/ CallOnNonArray
    \/ DbAdvance
SpecLoad == LoadInit /\ [][LoadNext]_vars

\* ------------------------------------------------------ ActivityTracker
NewFileActivity(f, t) ==
    [filePath |-> f, language |-> DocLanguage[f], keystrokes |-> 0,
     linesAdded |-> 0, linesDeleted |-> 0, timeSpent |-> 0,
     firstActive |-> t, lastActive |-> t]

\* faulty variant: opening always starts a fresh entry
trackFileOpen_Reset(files, f, t) ==
    [g \in DOMAIN files \cup {f} |->
        IF g = f THEN NewFileActivity(f, t) ELSE files[g]]

\* trackFileOpen: a ledger entry is created only if the file has none
trackFileOpen(files, f, t) ==
    IF f \in DOMAIN files THEN files
    ELSE [g \in DOMAIN files \cup {f} |->
            IF g = f THEN NewFileActivity(f, t) ELSE files[g]]

\* (newText.match(/\n/g) || []).length
RECURSIVE NewLineCount(_)
NewLineCount(text) ==
    IF text = <<>> THEN 0
    ELSE (IF Head(text) = "\n" THEN 1 ELSE 0) + NewLineCount(Tail(text))

\* faulty variant: the end line is counted as a deleted line too
ChangeDelta_Inclusive(change) ==
    LET deletedFullLines == change.endLine - change.startLine + 1
        del == IF deletedFullLines > 0 THEN deletedFullLines ELSE 0
        newLineCount == NewLineCount(change.text)
        add == IF newLineCount > 0 THEN newLineCount ELSE 0
        replaced == IF deletedFullLines > 0 /\ newLineCount > 0
                    THEN Min(deletedFullLines, newLineCount) ELSE 0
    IN  [linesDeleted |-> del - replaced,
         linesAdded |-> add - replaced,
         keystrokes |-> Max(Len(change.text), change.rangeLength)]

\* faulty variant: replaced lines are counted as both deleted and added
ChangeDelta_NoOverlap(change) ==
    LET deletedFullLines == change.endLine - change.startLine
        newLineCount == NewLineCount(change.text)
    IN  [linesDeleted |-> IF deletedFullLines > 0 THEN deletedFullLines ELSE 0,
         linesAdded |-> IF newLineCount > 0 THEN newLineCount ELSE 0,
         keystrokes |-> Max(Len(change.text), change.rangeLength)]

\* faulty variant: a replacement counts the inserted text only
ChangeDelta_TextOnly(change) ==
    LET deletedFullLines == change.endLine - change.startLine
        del == IF deletedFullLines > 0 THEN deletedFullLines ELSE 0
        newLineCount == NewLineCount(change.text)
        add == IF newLineCount > 0 THEN newLineCount ELSE 0
        replaced == IF deletedFullLines > 0 /\ newLineCount > 0
                    THEN Min(deletedFullLines, newLineCount) ELSE 0
    IN  [linesDeleted |-> del - replaced,
         linesAdded |-> add - replaced,
         keystrokes |-> Len(change.text)]

\* one pass of the loop over event.contentChanges
ChangeDelta(change) ==
    LET deletedFullLines == change.endLine - change.startLine
        del == IF deletedFullLines > 0 THEN deletedFullLines ELSE 0
        newLineCount == NewLineCount(change.text)
        add == IF newLineCount > 0 THEN newLineCount ELSE 0
        replaced == IF deletedFullLines > 0 /\ newLineCount > 0
                    THEN Min(deletedFullLines, newLineCount) ELSE 0
    IN  [linesDeleted |-> del - replaced,
         linesAdded |-> add - replaced,
         keystrokes |-> Max(Len(change.text), change.rangeLength)]

RECURSIVE ChangesDelta(_)
ChangesDelta(changes) ==
    IF changes = <<>>
    THEN [linesDeleted |-> 0, linesAdded |-> 0, keystrokes |-> 0]
    ELSE LET h == ChangeDelta(Head(changes))
             r == ChangesDelta(Tail(changes))
         IN  [linesDeleted |-> h.linesDeleted + r.linesDeleted,
              linesAdded |-> h.linesAdded + r.linesAdded,
              keystrokes |-> h.keystrokes + r.keystrokes]

\* trackFileChange: the ledger after one edit event on file f
trackFileChange(files, f, changes, t) ==
    LET opened == trackFileOpen(files, f, t)
        d == ChangesDelta(changes)
    IN  [opened EXCEPT ![f] =
            [@ EXCEPT !.lastActive = t,
                      !.keystrokes = @ + d.keystrokes,
                      !.linesAdded = @ + d.linesAdded,
                      !.linesDeleted = @ + d.linesDeleted]]

\* trackFileClose: the entry stays, its lastActive is refreshed
\* faulty variant: the entry is dropped with the document
trackFileClose_Delete(files, f, t) ==
    [g \in DOMAIN files \ {f} |-> files[g]]

trackFileClose(files, f, t) ==
    IF f \in DOMAIN files THEN [files EXCEPT ![f].lastActive = t] ELSE files

\* setActiveFile: the entry is created if absent and its lastActive refreshed
setActiveFile(files, f, t) ==
    [trackFileOpen(files, f, t) EXCEPT ![f].lastActive = t]

\* faulty variant: the elapsed time is credited without the per-tick ceiling
TimeToAdd_NoCap(timeSinceLastTick) == timeSinceLastTick

\* Math.min(timeSinceLastTick, MAX_TIME_PER_TICK)
TimeToAdd(timeSinceLastTick) == Min(timeSinceLastTick, MAX_TIME_PER_TICK)

\* tickTime without the per-interval ceiling
TickOutcome_NoIntervalCap ==
    IF ~windowFocused THEN "unfocused"
    ELSE IF currentActiveFile = "" THEN "nofile"
    ELSE IF now - lastActivityTime > INACTIVITY_THRESHOLD THEN "idle"
    ELSE IF currentActiveFile \notin DOMAIN activeFiles THEN "noentry"
    ELSE "accrued"

\* faulty variant: idle already at the threshold itself
TickOutcome_IdleAtThreshold ==
    IF ~windowFocused THEN "unfocused"
    ELSE IF currentActiveFile = "" THEN "nofile"
    ELSE IF now - lastActivityTime >= INACTIVITY_THRESHOLD THEN "idle"
    ELSE IF currentActiveFile \notin DOMAIN activeFiles THEN "noentry"
    ELSE IF intervalTimeAccumulated + TimeToAdd(now - lastTickTime)
                > MAX_TIME_PER_SAVE_INTERVAL THEN "capped"
    ELSE "accrued"

\* which return of tickTime is taken
TickOutcome ==
    IF ~windowFocused THEN "unfocused"
    ELSE IF currentActiveFile = "" THEN "nofile"
    ELSE IF now - lastActivityTime > INACTIVITY_THRESHOLD THEN "idle"
    ELSE IF currentActiveFile \notin DOMAIN activeFiles THEN "noentry"
    ELSE IF intervalTimeAccumulated + TimeToAdd(now - lastTickTime)
                > MAX_TIME_PER_SAVE_INTERVAL THEN "capped"
    ELSE "accrued"

RECURSIVE SumTime(_, _)
SumTime(files, order) ==
    IF order = <<>> THEN 0
    ELSE (IF Head(order) \in DOMAIN files THEN files[Head(order)].timeSpent ELSE 0)
         + SumTime(files, Tail(order))

\* faulty variant: the snapshot is stamped with the session start
getStats_StampedAtStart(t) ==
    [sessionStart |-> sessionStart,
     sessionEnd |-> sessionStart,
     activeFiles |-> activeFiles,
     totalKeystrokes |-> totalKeystrokes,
     totalTimeSpent |-> SumTime(activeFiles, FileOrder)]

\* getStats(): a copy of the ledger with the totals
getStats(t) ==
    [sessionStart |-> sessionStart,
     sessionEnd |-> t,
     activeFiles |-> activeFiles,
     totalKeystrokes |-> totalKeystrokes,
     totalTimeSpent |-> SumTime(activeFiles, FileOrder)]

getSessionTime == SumTime(activeFiles, FileOrder)

\* resetStats: the ledger with every counter zeroed, the keys kept
\* faulty variant: the ledger is emptied
resetStats_Clear(files, t) == <<>>

\* faulty variant: the time of the entries is kept
resetStats_KeepsTime(files, t) ==
    [f \in DOMAIN files |->
        [files[f] EXCEPT !.keystrokes = 0, !.linesAdded = 0,
                         !.linesDeleted = 0, !.firstActive = t, !.lastActive = t]]

resetStats(files, t) ==
    [f \in DOMAIN files |->
        [files[f] EXCEPT !.timeSpent = 0, !.keystrokes = 0, !.linesAdded = 0,
                         !.linesDeleted = 0, !.firstActive = t, !.lastActive = t]]

\* ------------------------------------------- tracker handlers (actions)
\* the setInterval callback of startTimeTracking
TickTime ==
    /\ tracking
    /\ LET elapsed == now - lastTickTime
           out == TickOutcome
           add == TimeToAdd(elapsed)
       IN  /\ lastTickTime' = now
           /\ prevTickAt' = now
           /\ isUserActive' = IF out \in {"unfocused", "nofile", "idle"} THEN FALSE
                              ELSE IF out = "accrued" THEN TRUE ELSE isUserActive
           /\ activeFiles' =
                 IF out = "accrued"
                 THEN [activeFiles EXCEPT ![currentActiveFile] =
                          [@ EXCEPT !.timeSpent = @ + add, !.lastActive = now]]
                 ELSE activeFiles
           /\ intervalTimeAccumulated' =
                 IF out = "accrued" THEN intervalTimeAccumulated + add
                 ELSE intervalTimeAccumulated
           /\ lastOp' = [op |-> "tickTime", outcome |-> out,
                         added |-> IF out = "accrued" THEN add ELSE 0,
                         sincePrevTick |-> now - prevTickAt]
    /\ UNCHANGED <<envVars, dbVars, extVars, hostVars, sessionStart, totalKeystrokes,
                   currentActiveFile, lastActivityTime, tracking, ingested>>

\* onDidOpenTextDocument (file scheme)
OnDidOpenTextDocument ==
    /\ tracking
    /\ \E f \in docs :
          /\ activeFiles' = trackFileOpen(activeFiles, f, now)
          /\ lastActivityTime' = now
          /\ lastOp' = [op |-> "trackFileOpen", file |-> f]
    /\ UNCHANGED <<envVars, dbVars, extVars, hostVars, sessionStart, totalKeystrokes,
                   currentActiveFile, lastTickTime, isUserActive,
                   intervalTimeAccumulated, tracking, prevTickAt, ingested>>

\* edits the editor can report: a range and the text replacing it
EditShapes ==
    { [startLine |-> 0, endLine |-> 3, text |-> <<>>, rangeLength |-> 3],
      [startLine |-> 0, endLine |-> 1, text |-> <<"\n", "\n">>, rangeLength |-> 1],
      [startLine |-> 0, endLine |-> 0, text |-> <<"x">>, rangeLength |-> 0],
      [startLine |-> 2, endLine |-> 2, text |-> <<"\n">>, rangeLength |-> 0] }
\* line 0 replaced by text with two line breaks
ReplaceOneByTwo ==
    [startLine |-> 0, endLine |-> 1, text |-> <<"\n", "\n">>, rangeLength |-> 1]
\* lines 0 to 2 removed, nothing inserted
DeleteThreeLines == [startLine |-> 0, endLine |-> 3, text |-> <<>>, rangeLength |-> 3]
\* a newline typed at the end of line 2
TypedNewline == [startLine |-> 2, endLine |-> 2, text |-> <<"\n">>, rangeLength |-> 0]
EditEvents ==
    UNION {[1..n -> EditShapes] : n \in 1..MaxChanges}

\* onDidChangeTextDocument (file scheme), while the session has counted
\* fewer than cap keystrokes
TrackFileChangeBelow(cap) ==
    /\ tracking
    /\ \E f \in docs, changes \in edits :
          LET k == ChangesDelta(changes).keystrokes
          IN  /\ totalKeystrokes < cap
              /\ activeFiles' = trackFileChange(activeFiles, f, changes, now)
              /\ lastActivityTime' = now
              /\ totalKeystrokes' = totalKeystrokes + k
              /\ lastOp' = [op |-> "trackFileChange", file |-> f, changes |-> changes]
    /\ UNCHANGED <<envVars, dbVars, extVars, hostVars, sessionStart, currentActiveFile,
                   lastTickTime, isUserActive, intervalTimeAccumulated,
                   tracking, prevTickAt, ingested>>

OnDidChangeTextDocument == TrackFileChangeBelow(MaxKeystrokes)

\* onDidCloseTextDocument (file scheme)
OnDidCloseTextDocument ==
    /\ tracking
    /\ \E f \in docs :
          /\ activeFiles' = trackFileClose(activeFiles, f, now)
          /\ currentActiveFile' = IF currentActiveFile = f THEN "" ELSE currentActiveFile
          /\ lastOp' = [op |-> "trackFileClose", file |-> f]
    /\ UNCHANGED <<envVars, dbVars, extVars, hostVars, sessionStart, totalKeystrokes,
                   lastTickTime, isUserActive, lastActivityTime,
                   intervalTimeAccumulated, tracking, prevTickAt, ingested>>

\* onDidChangeActiveTextEditor: a file editor, or none / a non-file document ("")
OnDidChangeActiveTextEditor ==
    /\ tracking
    /\ \E e \in docs \cup {""} :
          /\ hostActive' = e
          /\ IF e # ""
             THEN /\ currentActiveFile' = e
                  /\ activeFiles' = setActiveFile(activeFiles, e, now)
                  /\ lastActivityTime' = now
             ELSE /\ currentActiveFile' = ""
                  /\ UNCHANGED <<activeFiles, lastActivityTime>>
          /\ lastOp' = [op |-> "onDidChangeActiveTextEditor",
                        moved |-> e # currentActiveFile]
    /\ UNCHANGED <<envVars, dbVars, extVars, windowFocused, docs, edits, sessionStart,
                   totalKeystrokes, lastTickTime, isUserActive,
                   intervalTimeAccumulated, tracking, prevTickAt, ingested>>

\* faulty variant: refocus refreshes the idle clock but not the tick clock
OnDidChangeWindowState_KeepsTickClock ==
    /\ tracking
    /\ \E focused \in BOOLEAN :
          /\ windowFocused' = focused
          /\ IF focused
             THEN lastActivityTime' = now /\ UNCHANGED lastTickTime
             ELSE UNCHANGED <<lastActivityTime, lastTickTime>>
          /\ lastOp' = [op |-> "onDidChangeWindowState"]
    /\ UNCHANGED <<envVars, dbVars, extVars, hostActive, docs, edits, activeFiles, sessionStart,
                   totalKeystrokes, currentActiveFile, isUserActive,
                   intervalTimeAccumulated, tracking, prevTickAt, ingested>>

\* onDidChangeWindowState
OnDidChangeWindowState ==
    /\ tracking
    /\ \E focused \in BOOLEAN :
          /\ windowFocused' = focused
          /\ IF focused
             THEN lastActivityTime' = now /\ lastTickTime' = now
             ELSE UNCHANGED <<lastActivityTime, lastTickTime>>
          /\ lastOp' = [op |-> "onDidChangeWindowState"]
    /\ UNCHANGED <<envVars, dbVars, extVars, hostActive, docs, edits, activeFiles, sessionStart,
                   totalKeystrokes, currentActiveFile, isUserActive,
                   intervalTimeAccumulated, tracking, prevTickAt, ingested>>

\* onDidChangeTextEditorSelection (file scheme) and onDidChangeVisibleTextEditors
OnSelectionOrVisibleEditors ==
    /\ tracking
    /\ lastActivityTime' = now
    /\ lastOp' = [op |-> "markActivity"]
    /\ UNCHANGED <<envVars, dbVars, extVars, hostVars, activeFiles, sessionStart,
                   totalKeystrokes, currentActiveFile, lastTickTime, isUserActive,
                   intervalTimeAccumulated, tracking, prevTickAt, ingested>>

\* the tracker part of resetStats()
ResetTracker ==
    /\ activeFiles' = resetStats(activeFiles, now)
    /\ sessionStart' = now
    /\ totalKeystrokes' = 0
    /\ intervalTimeAccumulated' = 0
    /\ lastTickTime' = now
    /\ ingested' = [f \in Files |-> 0]

\* activityTracker.resetStats() called on its own
ResetStats ==
    /\ tracking
    /\ ResetTracker
    /\ lastOp' = [op |-> "resetStats",
                  dirty |-> totalKeystrokes > 0 /\ SumTime(activeFiles, FileOrder) > 0]
    /\ UNCHANGED <<envVars, dbVars, extVars, hostVars, currentActiveFile, isUserActive,
                   lastActivityTime, tracking, prevTickAt>>

\* activityTracker.dispose(): the timer and the listeners are gone
DisposeTracker ==
    /\ tracking
    /\ tracking' = FALSE
    /\ lastOp' = [op |-> "dispose"]
    /\ UNCHANGED <<envVars, dbVars, extVars, hostVars, activeFiles, sessionStart,
                   totalKeystrokes, currentActiveFile, lastTickTime, isUserActive,
                   lastActivityTime, intervalTimeAccumulated, prevTickAt, ingested>>

\* the clock between two handler turns: one tick period, or a delayed timer
\* (suspend)
TrackerClockSteps == {TIME_UPDATE_INTERVAL, 5 * ONE_SECOND}
TrackerAdvance ==
    \E d \in TrackerClockSteps :
        /\ now + d <= MaxTrackerSeconds * ONE_SECOND
        /\ now' = now + d
        /\ lastOp' = [op |-> "clock"]
        /\ UNCHANGED <<tz, dbVars, trkVars, hostVars, extVars>>

TrackerSpecInit ==
    /\ BufferInit
    /\ TrackerInit(0)
    /\ windowFocused = TRUE
    /\ docs = {"a.ts"}
    /\ edits = {}
    /\ hostActive \in docs \cup {""}
    /\ ExtInit
    /\ lastOp = [op |-> "init"]

\* the accumulator under ticks and focus events (edits are left to the edit
\* specification: for accrual an edit acts as markActivity does)
TrackerNext ==
    \/ TickTime
    \/ OnDidOpenTextDocument
    \/ OnDidCloseTextDocument
    \/ OnDidChangeActiveTextEditor
    \/ OnDidChangeWindowState
    \/ OnSelectionOrVisibleEditors
    \/ ResetStats
    \/ TrackerAdvance
SpecTracker == TrackerSpecInit /\ [][TrackerNext]_vars

\* the end of a flush interval without a flush: a.ts was focused at clock
\* value 0 and every tick since came one period after the previous one, up to
\* CapStart; the clock then runs to CapEnd
CapStart == MAX_TIME_PER_SAVE_INTERVAL - MaxCapSeconds * ONE_SECOND
CapEnd == MAX_TIME_PER_SAVE_INTERVAL + MaxCapSeconds * ONE_SECOND
CapInit ==
    /\ now = CapStart
    /\ tz = 0
    /\ activities = <<>>
    /\ disk = NoFile
    /\ nextId = 1
    /\ activeFiles = [f \in {"a.ts"} |->
                         [NewFileActivity(f, 0) EXCEPT !.timeSpent = CapStart,
                                                       !.lastActive = CapStart]]
    /\ sessionStart = 0
    /\ totalKeystrokes = 0
    /\ currentActiveFile = "a.ts"
    /\ lastTickTime = CapStart
    /\ isUserActive = TRUE
    /\ lastActivityTime = 0
    /\ intervalTimeAccumulated = CapStart
    /\ tracking = TRUE
    /\ prevTickAt = CapStart
    /\ ingested = [f \in Files |-> 0]
    /\ windowFocused = TRUE
    /\ hostActive = "a.ts"
    /\ docs = Files
    /\ edits = {}
    /\ ExtInit
    /\ lastOp = [op |-> "tickTime", outcome |-> "accrued",
                 added |-> TIME_UPDATE_INTERVAL,
                 sincePrevTick |-> TIME_UPDATE_INTERVAL]

\* the clock near the interval ceiling: one tick period or the per-tick cap
CapClockSteps == {TIME_UPDATE_INTERVAL, MAX_TIME_PER_TICK}
CapAdvance ==
    \E d \in CapClockSteps :
        /\ now + d <= CapEnd
        /\ now' = now + d
        /\ lastOp' = [op |-> "clock"]
        /\ UNCHANGED <<tz, dbVars, trkVars, hostVars, extVars>>

\* the accumulator around the per-interval ceiling
CapNext ==
    \/ TickTime
    \/ OnDidChangeActiveTextEditor
    \/ ResetStats
    \/ CapAdvance
SpecCap == CapInit /\ [][CapNext]_vars

\* ------------------------------------------------ extension entry point
\* Object.keys(stats.activeFiles).length > 0
HasFiles(stats) == DOMAIN stats.activeFiles # {}
hasActivity(stats) == stats.totalTimeSpent > 0 \/ stats.totalKeystrokes > 0

\* the ghost after saveActivity(stats): one more record per file that got one
IngestedAfter(stats) ==
    [f \in Files |->
        ingested[f] +
        (IF f \in DOMAIN stats.activeFiles
         THEN Len(NewRecords(stats.activeFiles[f], now, 0)) ELSE 0)]

\* the buffer after a handler that calls saveActivity(stats) iff save
Store(acts, save) ==
    /\ Len(acts) <= MaxRecords
    /\ activities' = acts
    /\ disk' = IF save THEN saveDatabase(disk, acts, TRUE) ELSE disk
    /\ nextId' = nextId + (Len(acts) - Len(activities))

\* apiClient.syncActivities(batch): the request leaves iff the client has a
\* token (it throws before fetch otherwise)
Launch(send, origin, batch) ==
    /\ send => BagCardinality(inflight) < MaxInFlight
    /\ inflight' = IF send
                   THEN inflight (+) SetToBag({[origin |-> origin, batch |-> batch]})
                   ELSE inflight

\* the flush timer: saveInterval callback
SaveTimer ==
    /\ saveInterval
    /\ LET stats == getStats(now)
           save == live /\ HasFiles(stats) /\ hasActivity(stats)
           acts == IF save THEN saveActivity(activities, stats, now, nextId)
                   ELSE activities
       IN  /\ Store(acts, save)
           /\ IF save
              THEN /\ ResetTracker
                   /\ UNCHANGED <<currentActiveFile, isUserActive,
                                  lastActivityTime, tracking, prevTickAt>>
              ELSE UNCHANGED trkVars
           /\ lastOp' = [op |-> "saveInterval", saved |-> save]
    /\ UNCHANGED <<envVars, hostVars, extVars>>

\* the sync timer: syncInterval callback up to its await
SyncTimer ==
    /\ syncInterval
    /\ LET run == apiToken /\ live
           batch == getUnsyncedActivities(activities)
           send == run /\ batch # <<>> /\ clientToken
       IN  /\ Launch(send, "timer", batch)
           /\ pendingRetry' = IF run THEN {} ELSE pendingRetry
           /\ lastOp' = [op |-> "sync", origin |-> "timer", ran |-> run,
                         sent |-> IF send THEN Ids(batch) ELSE {},
                         retry |-> pendingRetry]
    /\ UNCHANGED <<envVars, dbVars, trkVars, hostVars, saveInterval, syncInterval,
                   statusUpdateInterval, live, subscribed, apiToken, clientToken, held>>

\* what the forceSync command shows its caller before it returns: the
\* warning without a token, nothing without localDb, the "no data" message for
\* an empty batch, and otherwise the success message, which follows the
\* withProgress call at once since that call is not awaited
ForceSyncMessage(run, batch) ==
    IF ~apiToken THEN "warning"
    ELSE IF ~run THEN "none"
    ELSE IF batch = <<>> THEN "no data"
    ELSE "synced"

\* the analogWakaTime.forceSync command; withProgress is not awaited
ForceSync ==
    /\ subscribed
    /\ LET stats == getStats(now)
           run == apiToken /\ live
           save == run /\ HasFiles(stats)
           acts == IF save THEN saveActivity(activities, stats, now, nextId)
                   ELSE activities
           batch == getUnsyncedActivities(acts)
           send == run /\ batch # <<>> /\ clientToken
       IN  /\ Store(acts, save)
           /\ IF save
              THEN /\ ResetTracker
                   /\ UNCHANGED <<currentActiveFile, isUserActive,
                                  lastActivityTime, tracking, prevTickAt>>
              ELSE UNCHANGED trkVars
           /\ Launch(send, "force", batch)
           /\ pendingRetry' = IF run THEN {} ELSE pendingRetry
           /\ lastOp' = [op |-> "sync", origin |-> "force", ran |-> run,
                         sent |-> IF send THEN Ids(batch) ELSE {},
                         retry |-> pendingRetry,
                         batch |-> Ids(batch),
                         shown |-> ForceSyncMessage(run, batch)]
    /\ UNCHANGED <<envVars, hostVars, saveInterval, syncInterval,
                   statusUpdateInterval, live, subscribed, apiToken, clientToken, held>>

\* faulty variant: the continuation of a request never marks a record
OnResponse_NoMark ==
    \E r \in BagToSet(inflight), ok \in BOOLEAN :
        /\ inflight' = inflight (-) SetToBag({r})
        /\ pendingRetry' = IF ok THEN pendingRetry
                           ELSE pendingRetry \cup Ids(r.batch)
        /\ lastOp' = [op |-> "response", ok |-> ok, origin |-> r.origin,
                      shown |-> "none", error |-> ~ok, logged |-> ~ok]
        /\ UNCHANGED <<envVars, dbVars, trkVars, hostVars, saveInterval,
                       syncInterval, statusUpdateInterval, live, subscribed,
                       apiToken, clientToken, held>>

\* the continuation of request r ends in an error: syncActivities throws, or
\* it resolves after deactivate and localDb.markAsSynced is called on
\* undefined (deactivate's own continuation is localDb?.markAsSynced)
ResponseError(r, ok) == ~ok \/ (~live /\ r.origin # "deactivate")

\* the continuation of a request: syncActivities resolves (ok) or throws.
\* A throw in the timer and in both shutdown paths is caught and logged; in
\* the forced sync it rejects the promise of withProgress, which nothing
\* awaits, so no continuation shows a message
\* markAsSynced runs only while localDb is defined: after deactivate the
\* timer, command and dispose continuations throw on undefined, and
\* deactivate's own continuation is localDb?.markAsSynced
OnResponse ==
    \E r \in BagToSet(inflight), ok \in BOOLEAN :
        LET mark == ok /\ live
            acts == IF mark THEN markAsSynced(activities, r.batch) ELSE activities
        IN  /\ inflight' = inflight (-) SetToBag({r})
            /\ activities' = acts
            /\ disk' = IF mark THEN saveDatabase(disk, acts, TRUE) ELSE disk
            /\ pendingRetry' = IF ok THEN pendingRetry
                               ELSE pendingRetry \cup Ids(r.batch)
            /\ lastOp' = [op |-> "response", ok |-> ok, origin |-> r.origin,
                          shown |-> "none",
                          error |-> ResponseError(r, ok),
                          logged |-> ResponseError(r, ok) /\ r.origin # "force"]
            /\ UNCHANGED <<envVars, nextId, trkVars, hostVars, saveInterval,
                           syncInterval, statusUpdateInterval, live, subscribed,
                           apiToken, clientToken, held>>

\* the three clearInterval calls of both shutdown paths
ClearTimers ==
    /\ saveInterval' = FALSE
    /\ syncInterval' = FALSE
    /\ statusUpdateInterval' = FALSE

\* the subscription pushed at lines 198-237, up to its await
DisposeHandler ==
    /\ subscribed
    /\ subscribed' = FALSE
    /\ ClearTimers
    /\ LET stats == getStats(now)
           save == live /\ HasFiles(stats) /\ hasActivity(stats)
           acts == IF save THEN saveActivity(activities, stats, now, nextId)
                   ELSE activities
           batch == getUnsyncedActivities(acts)
           send == apiToken /\ live /\ batch # <<>> /\ clientToken
       IN  /\ Store(acts, save)
           /\ ingested' = IF save THEN IngestedAfter(stats) ELSE ingested
           /\ Launch(send, "dispose", batch)
           /\ lastOp' = [op |-> "sync", origin |-> "dispose", ran |-> live,
                         sent |-> IF send THEN Ids(batch) ELSE {},
                         retry |-> pendingRetry, escaped |-> FALSE]
    /\ UNCHANGED <<envVars, hostVars, activeFiles, sessionStart, totalKeystrokes,
                   currentActiveFile, lastTickTime, isUserActive, lastActivityTime,
                   intervalTimeAccumulated, tracking, prevTickAt, live, apiToken,
                   clientToken, pendingRetry, held>>

\* deactivate()
Deactivate ==
    /\ live
    /\ live' = FALSE
    /\ ClearTimers
    /\ LET stats == getStats(now)
           save == HasFiles(stats) /\ hasActivity(stats)
           acts == IF save THEN saveActivity(activities, stats, now, nextId)
                   ELSE activities
           batch == getUnsyncedActivities(acts)
           send == apiToken /\ batch # <<>> /\ clientToken
       IN  /\ Store(acts, save)
           /\ ingested' = IF save THEN IngestedAfter(stats) ELSE ingested
           /\ Launch(send, "deactivate", batch)
           /\ lastOp' = [op |-> "sync", origin |-> "deactivate", ran |-> TRUE,
                         sent |-> IF send THEN Ids(batch) ELSE {},
                         retry |-> pendingRetry, escaped |-> FALSE]
    /\ tracking' = FALSE
    /\ UNCHANGED <<envVars, hostVars, activeFiles, sessionStart, totalKeystrokes,
                   currentActiveFile, lastTickTime, isUserActive, lastActivityTime,
                   intervalTimeAccumulated, prevTickAt, subscribed, apiToken,
                   clientToken, pendingRetry, held>>

\* the final flush and sync on a store that is not a list: saveActivity throws
\* at push when a record is due, and getUnsyncedActivities throws at filter;
\* both calls stand outside the try of either shutdown path
FinalFlushThrows(stats, flush) ==
    flush /\ Throws("saveActivity", activities, stats)
FinalSyncThrows(sync) == sync /\ Throws("getUnsyncedActivities", activities, NoStats)

\* the dispose handler on such a store: the TypeError rejects the promise the
\* async handler returns
DisposeOnNonArray ==
    /\ subscribed
    /\ ~IsArray(activities)
    /\ subscribed' = FALSE
    /\ ClearTimers
    /\ LET stats == getStats(now)
           flush == live /\ HasFiles(stats) /\ hasActivity(stats)
           sync == apiToken /\ live
       IN  /\ disk' = IF flush /\ ~FinalFlushThrows(stats, flush)
                      THEN saveDatabase(disk, activities, TRUE) ELSE disk
           /\ lastOp' = [op |-> "sync", origin |-> "dispose", ran |-> live,
                         sent |-> {}, retry |-> pendingRetry,
                         escaped |-> FinalFlushThrows(stats, flush)
                                        \/ FinalSyncThrows(sync)]
    /\ UNCHANGED <<envVars, activities, nextId, trkVars, hostVars, live,
                   apiToken, clientToken, inflight, pendingRetry, held>>

\* deactivate() on such a store: the TypeError leaves deactivate at the
\* throwing line, before the tracker is disposed and the module variables are
\* cleared
DeactivateOnNonArray ==
    /\ live
    /\ ~IsArray(activities)
    /\ ClearTimers
    /\ LET stats == getStats(now)
           flush == HasFiles(stats) /\ hasActivity(stats)
           escaped == FinalFlushThrows(stats, flush) \/ FinalSyncThrows(apiToken)
       IN  /\ disk' = IF flush /\ ~FinalFlushThrows(stats, flush)
                      THEN saveDatabase(disk, activities, TRUE) ELSE disk
           /\ live' = escaped
           /\ tracking' = (escaped /\ tracking)
           /\ lastOp' = [op |-> "sync", origin |-> "deactivate", ran |-> TRUE,
                         sent |-> {}, retry |-> pendingRetry,
                         escaped |-> escaped]
    /\ UNCHANGED <<envVars, activities, nextId, hostVars, activeFiles,
                   sessionStart, totalKeystrokes, currentActiveFile, lastTickTime,
                   isUserActive, lastActivityTime, intervalTimeAccumulated,
                   prevTickAt, ingested, subscribed, apiToken, clientToken,
                   inflight, pendingRetry, held>>

\* the status bar timer: reads the session time and redraws the status bar
StatusUpdateTimer ==
    /\ statusUpdateInterval
    /\ lastOp' = [op |-> "statusUpdateInterval", drawn |-> live]
    /\ UNCHANGED <<envVars, dbVars, trkVars, hostVars, extVars>>

\* the retention timer: activate keeps no handle of this setInterval and no
\* path clears it; the callback runs localDb?.cleanupOldRecords()
CleanupTimer ==
    LET acts == IF live THEN cleanupOldRecords(activities, now) ELSE activities
    IN  /\ activities' = acts
        /\ disk' = IF live THEN saveDatabase(disk, acts, TRUE) ELSE disk
        /\ lastOp' = [op |-> "cleanupInterval", swept |-> live]
        /\ UNCHANGED <<envVars, nextId, trkVars, hostVars, extVars>>

\* a change of the setting that leaves the client as it was
OnDidChangeConfiguration_ConfigOnly ==
    \E t \in BOOLEAN :
        /\ apiToken' = t
        /\ lastOp' = [op |-> "config", token |-> t]
        /\ UNCHANGED <<envVars, dbVars, trkVars, hostVars, saveInterval,
                       syncInterval, statusUpdateInterval, live, subscribed,
                       clientToken, inflight, pendingRetry, held>>

\* analogWakaTime.apiToken is set or emptied (the setApiToken command or the
\* settings file); the onDidChangeConfiguration listener, while it is
\* subscribed, hands the new token to the client if there is one
OnDidChangeConfiguration ==
    \E t \in BOOLEAN :
        /\ apiToken' = t
        /\ clientToken' = IF subscribed /\ live THEN t ELSE clientToken
        /\ lastOp' = [op |-> "config", token |-> t]
        /\ UNCHANGED <<envVars, dbVars, trkVars, hostVars, saveInterval,
                       syncInterval, statusUpdateInterval, live, subscribed,
                       inflight, pendingRetry, held>>

\* the clock between two handler turns of the extension
ExtAdvance ==
    /\ now + ONE_SECOND <= MaxExtSeconds * ONE_SECOND
    /\ now' = now + ONE_SECOND
    /\ lastOp' = [op |-> "clock"]
    /\ UNCHANGED <<tz, dbVars, trkVars, hostVars, extVars>>

ExtSpecInit ==
    /\ BufferInit
    /\ TrackerInit(0)
    /\ windowFocused = TRUE
    /\ docs = {"a.ts"}
    /\ edits = {<<TypedNewline>>}
    /\ hostActive = ""
    /\ ExtInit
    /\ lastOp = [op |-> "init"]

\* one activation of the extension: editor events, the timers, the forced
\* sync, the responses and the two shutdown paths, which the host may run in
\* either order
ExtNext ==
    \/ TickTime
    \/ OnDidChangeActiveTextEditor
    \/ OnDidChangeTextDocument
    \/ SaveTimer
    \/ SyncTimer
    \/ ForceSync
    \/ OnResponse
    \/ DisposeHandler
    \/ Deactivate
    \/ ExtAdvance
SpecExt == ExtSpecInit /\ [][ExtNext]_vars

\* the timers around the two shutdown paths: the five timer callbacks, an
\* edit to give them work, the responses and both shutdown paths
ShutdownNext ==
    \/ OnDidChangeTextDocument
    \/ TickTime
    \/ SaveTimer
    \/ SyncTimer
    \/ StatusUpdateTimer
    \/ CleanupTimer
    \/ OnResponse
    \/ DisposeHandler
    \/ Deactivate
    \/ ExtAdvance
SpecShutdown == ExtSpecInit /\ [][ShutdownNext]_vars

\* the running extension with a token: ingests (of one resource), the sync
\* timer, the retention sweep and the responses. The sync timer fires again
\* and again (setInterval), every request is answered, and the collector
\* accepts a request again and again
LiveNext ==
    \/ /\ DbSaveActivity({TRUE})
       /\ \A i \in 1..Len(activities') : activities'[i].language = "typescript"
    \/ SyncTimer
    \/ CleanupTimer
    \/ OnResponse
    \/ ExtAdvance
Accepted == OnResponse /\ lastOp'.ok
SpecLive ==
    /\ DbInit
    /\ [][LiveNext]_vars
    /\ WF_vars(SyncTimer)
    /\ WF_vars(OnResponse)
    /\ SF_vars(Accepted)

\* ------------------------------------------------ ApiClient.sendActivity
\* faulty variant: the hour is left out of the key
SameBucket_NoHour(req, language, dateStr, hour) ==
    req.language = language /\ req.date = dateStr

\* grouped.get(language).get(dateStr).get(hour) finds this request
SameBucket(req, language, dateStr, hour) ==
    req.language = language /\ req.date = dateStr /\ req.hour = hour

\* groupActivityByLanguageAndHour: the loop over Object.entries(activeFiles);
\* grouped is written as the list of its requests in insertion order
RECURSIVE GroupLoop(_, _, _)
GroupLoop(grouped, files, order) ==
    IF order = <<>> THEN grouped
    ELSE LET fa == files[Head(order)]
             language == IF fa.language = "" THEN "unknown" ELSE fa.language
             timeSpentSeconds == fa.timeSpent \div ONE_SECOND
             netLines == Max(0, fa.linesAdded - fa.linesDeleted)
             midTime == (fa.firstActive + fa.lastActive) \div 2
             dateStr == DateStr(midTime)
             hour == LocalHour(midTime)
             found == {i \in 1..Len(grouped) :
                          SameBucket(grouped[i], language, dateStr, hour)}
             fresh == [language |-> language, lines |-> 0, time |-> 0,
                       date |-> dateStr, hour |-> hour]
             with == IF found = {} THEN Append(grouped, fresh) ELSE grouped
             at == IF found = {} THEN Len(with) ELSE CHOOSE i \in found : TRUE
         IN  IF Head(order) \notin DOMAIN files \/ timeSpentSeconds <= 0
             THEN GroupLoop(grouped, files, Tail(order))
             ELSE GroupLoop([with EXCEPT ![at] =
                                [@ EXCEPT !.lines = @ + netLines,
                                          !.time = @ + timeSpentSeconds]],
                            files, Tail(order))

\* the files a snapshot handed to sendActivity may hold, in insertion order
SendPaths == <<"a.ts", "c.ts", "b.py">>
SendLanguage(f) == IF f = "b.py" THEN "python" ELSE "typescript"
groupActivityByLanguageAndHour(stats) ==
    GroupLoop(<<>>, stats.activeFiles, SendPaths)

\* sendActivity(stats): the requests handed to fetch, one per entry of
\* grouped; it throws before grouping when the client has no token
sendActivity(stats, token) ==
    IF token THEN groupActivityByLanguageAndHour(stats) ELSE <<>>

\* snapshots of up to three files, two of them of one language: no time, half
\* a second or a second and a half; lines added and deleted; seen in the
\* first or in the second hour
SendTimes == {0, ONE_SECOND \div 2, (3 * ONE_SECOND) \div 2}
SendLines == {<<0, 0>>, <<3, 1>>, <<1, 3>>}
SendSeenAt == {0, HOUR_UNITS}
SendActivityOf(f) ==
    {[filePath |-> f, language |-> SendLanguage(f), keystrokes |-> 0,
      linesAdded |-> l[1], linesDeleted |-> l[2], timeSpent |-> ts,
      firstActive |-> at, lastActive |-> at] :
        ts \in SendTimes, l \in SendLines, at \in SendSeenAt}
SendStats ==
    {[activeFiles |-> fs] :
        fs \in UNION {{g \in [F -> UNION {SendActivityOf(f) : f \in F}] :
                          \A f \in F : g[f].filePath = f} :
                      F \in SUBSET Range(SendPaths)}}

SendSpecInit ==
    /\ BufferInit
    /\ TrackerIdle
    /\ ExtActivated
    /\ held \in SendStats
    /\ lastOp = [op |-> "init"]

\* apiClient.sendActivity(stats) on the snapshot the caller holds
SendActivity ==
    /\ lastOp' = [op |-> "sendActivity", threw |-> ~clientToken,
                  requests |-> sendActivity(held, clientToken)]
    /\ UNCHANGED <<envVars, dbVars, trkVars, hostVars, extVars>>

SendNext ==
    \/ SendActivity
    \/ subscribed /\ OnDidChangeConfiguration
SpecSend == SendSpecInit /\ [][SendNext]_vars

\* activation on any file the constructor may find
FinalSpecInit ==
    /\ now = 0
    /\ tz = 0
    /\ disk \in DiskContents
    /\ activities = loadDatabase(disk)
    /\ nextId = 1 + Len(activities)
    /\ TrackerInit(0)
    /\ windowFocused = TRUE
    /\ docs = {"a.ts"}
    /\ edits = {<<TypedNewline>>}
    /\ hostActive = ""
    /\ ExtInit
    /\ lastOp = [op |-> "init"]

\* the final flush and sync of both shutdown paths on such a store: an edit,
\* a change of the token, the two paths in either order and the responses to
\* their requests
FinalNext ==
    \/ OnDidChangeTextDocument
    \/ subscribed /\ OnDidChangeConfiguration
    \/ IsArray(activities) /\ DisposeHandler
    \/ IsArray(activities) /\ Deactivate
    \/ DisposeOnNonArray
    \/ DeactivateOnNonArray
    \/ OnResponse
    \/ ExtAdvance
SpecFinal == FinalSpecInit /\ [][FinalNext]_vars

\* activation without a token in the configuration
AuthSpecInit ==
    /\ BufferInit
    /\ TrackerInit(0)
    /\ windowFocused = TRUE
    /\ docs = {"a.ts"}
    /\ edits = {<<TypedNewline>>}
    /\ hostActive = ""
    /\ saveInterval = TRUE
    /\ syncInterval = TRUE
    /\ statusUpdateInterval = TRUE
    /\ live = TRUE
    /\ subscribed = TRUE
    /\ apiToken = FALSE
    /\ clientToken = apiToken
    /\ inflight = EmptyBag
    /\ pendingRetry = {}
    /\ held = NoStats
    /\ lastOp = [op |-> "init"]

\* syncing with and without a token within one clock reading: edits, the
\* flush, the three kinds of sync and their responses, and changes of the
\* setting while the extension is subscribed to them
AuthNext ==
    \/ OnDidChangeTextDocument
    \/ SaveTimer
    \/ SyncTimer
    \/ ForceSync
    \/ OnResponse
    \/ DisposeHandler
    \/ Deactivate
    \/ subscribed /\ OnDidChangeConfiguration
SpecAuth == AuthSpecInit /\ [][AuthNext]_vars

\* flushing and syncing while the extension runs: edits, the two timers, the
\* forced sync and the responses
SyncNext ==
    \/ OnDidChangeTextDocument
    \/ SaveTimer
    \/ SyncTimer
    \/ ForceSync
    \/ OnResponse
    \/ ExtAdvance
SpecSync == ExtSpecInit /\ [][SyncNext]_vars

\* one document; the host reports either only removals of three lines or
\* any of the edit events
EditSpecInit ==
    /\ BufferInit
    /\ TrackerInit(0)
    /\ windowFocused = TRUE
    /\ docs = {"a.ts"}
    /\ edits \in {{<<DeleteThreeLines>>}, EditEvents}
    /\ hostActive = ""
    /\ ExtInit
    /\ lastOp = [op |-> "init"]

\* edits and editor switches between flushes (no tick: what a flush stores
\* comes from the edits alone)
EditNext ==
    \/ OnDidChangeTextDocument
    \/ OnDidChangeActiveTextEditor
    \/ SaveTimer
    \/ ExtAdvance
SpecEdit == EditSpecInit /\ [][EditNext]_vars

\* edit events of up to MaxRanges ranges on two documents, several in a row
\* between two resets of the counters, and documents opened and closed
RangeEvents ==
    UNION {[1..n -> EditShapes] : n \in 1..MaxRanges}
LedgerSpecInit ==
    /\ BufferInit
    /\ TrackerInit(0)
    /\ windowFocused = TRUE
    /\ docs = Files
    /\ edits = RangeEvents
    /\ hostActive = ""
    /\ ExtInit
    /\ lastOp = [op |-> "init"]
OnEdit == TrackFileChangeBelow(MaxLedgerKeystrokes)
LedgerNext ==
    \/ OnEdit
    \/ OnDidOpenTextDocument
    \/ OnDidCloseTextDocument
    \/ ResetStats
SpecLedger == LedgerSpecInit /\ [][LedgerNext]_vars

\* ticks that come half a second early or late, two documents and the flush
\* timer: the ledger holds parts of a second when it is flushed
FlushSpecInit ==
    /\ BufferInit
    /\ TrackerInit(0)
    /\ windowFocused = TRUE
    /\ docs = Files
    /\ edits = {}
    /\ hostActive = ""
    /\ ExtInit
    /\ lastOp = [op |-> "init"]
FlushAdvance ==
    /\ now + ONE_SECOND \div 2 <= MaxFlushSeconds * ONE_SECOND
    /\ now' = now + ONE_SECOND \div 2
    /\ lastOp' = [op |-> "clock"]
    /\ UNCHANGED <<tz, dbVars, trkVars, hostVars, extVars>>
FlushNext ==
    \/ OnDidChangeActiveTextEditor
    \/ TickTime
    \/ SaveTimer
    \/ FlushAdvance
SpecFlush == FlushSpecInit /\ [][FlushNext]_vars

\* two documents, one edit that adds a line and one that removes three
ResetSpecInit ==
    /\ BufferInit
    /\ TrackerInit(0)
    /\ windowFocused = TRUE
    /\ docs = Files
    /\ edits = {<<TypedNewline>>, <<DeleteThreeLines>>}
    /\ hostActive = ""
    /\ ExtInit
    /\ lastOp = [op |-> "init"]

\* counters filled by ticks and edits, then reset
ResetNext ==
    \/ TickTime
    \/ OnDidChangeTextDocument
    \/ OnDidChangeActiveTextEditor
    \/ ResetStats
    \/ ExtAdvance
SpecReset == ResetSpecInit /\ [][ResetNext]_vars

\* documents opened again after ticks and edits have filled their entries
OpenNext ==
    \/ OnDidOpenTextDocument
    \/ OnDidChangeTextDocument
    \/ OnDidChangeActiveTextEditor
    \/ TickTime
    \/ ExtAdvance
SpecOpen == ResetSpecInit /\ [][OpenNext]_vars

\* two documents, a newline typed into b.py right after construction
CloseSpecInit ==
    /\ BufferInit
    /\ activeFiles = trackFileChange(<<>>, "b.py", <<TypedNewline>>, 0)
    /\ sessionStart = 0
    /\ totalKeystrokes = ChangesDelta(<<TypedNewline>>).keystrokes
    /\ currentActiveFile = ""
    /\ lastTickTime = 0
    /\ isUserActive = FALSE
    /\ lastActivityTime = 0
    /\ intervalTimeAccumulated = 0
    /\ tracking = TRUE
    /\ prevTickAt = 0
    /\ ingested = [f \in Files |-> 0]
    /\ windowFocused = TRUE
    /\ docs = Files
    /\ edits = {}
    /\ hostActive = ""
    /\ ExtInit
    /\ lastOp = [op |-> "trackFileChange", file |-> "b.py",
                 changes |-> <<TypedNewline>>]

\* documents closed between accrual and the flush
CloseNext ==
    \/ OnDidCloseTextDocument
    \/ OnDidChangeActiveTextEditor
    \/ TickTime
    \/ SaveTimer
    \/ ExtAdvance
SpecClose == CloseSpecInit /\ [][CloseNext]_vars

\* the window regained focus in this step
Refocused(op) == op.op = "onDidChangeWindowState" /\ windowFocused
\* the clock after a refocus, counting the time since it (-1: no refocus, or
\* another event since)
FocusAdvance ==
    \E d \in TrackerClockSteps :
        /\ now + d <= MaxTrackerSeconds * ONE_SECOND
        /\ now' = now + d
        /\ lastOp' = [op |-> "clock",
                      sinceFocus |-> IF Refocused(lastOp) THEN d
                                     ELSE IF lastOp.op = "clock" /\ lastOp.sinceFocus >= 0
                                          THEN lastOp.sinceFocus + d
                                          ELSE 0 - 1]
        /\ UNCHANGED <<tz, dbVars, trkVars, hostVars, extVars>>

\* the window loses focus and regains it after some time away
FocusNext ==
    \/ TickTime
    \/ OnDidChangeActiveTextEditor
    \/ /\ OnDidChangeWindowState
       /\ windowFocused' # windowFocused
       /\ windowFocused' => lastOp.op = "clock"
    \/ FocusAdvance
SpecFocus == TrackerSpecInit /\ [][FocusNext]_vars

\* the clock around the inactivity threshold: within MaxIdleSeconds after
\* the start and after the threshold
IdleClockSteps == {ONE_SECOND, INACTIVITY_THRESHOLD}
IdleAdvance ==
    \E d \in IdleClockSteps :
        /\ now + d <= INACTIVITY_THRESHOLD + MaxIdleSeconds * ONE_SECOND
        /\ (now + d) % INACTIVITY_THRESHOLD <= MaxIdleSeconds * ONE_SECOND
        /\ now' = now + d
        /\ lastOp' = [op |-> "clock"]
        /\ UNCHANGED <<tz, dbVars, trkVars, hostVars, extVars>>

\* ticks after long pauses: focus, editor and selection events, the clock
IdleNext ==
    \/ TickTime
    \/ OnDidChangeActiveTextEditor
    \/ OnDidChangeWindowState
    \/ OnSelectionOrVisibleEditors
    \/ IdleAdvance
SpecIdle == TrackerSpecInit /\ [][IdleNext]_vars

\* faulty variant: the snapshot holds the ledger's own entry objects
SharedEntries_All == DOMAIN activeFiles

\* the ledger entries whose objects a snapshot shares with the tracker: none,
\* activeFilesObj[filePath] = { ...activity } copies every field, and every
\* field of a FileActivity is a string or a number
SharedEntries == {}

\* what the holder of snapshot h reads: an entry it shares with the tracker
\* has the values the ledger has now
Seen(h) ==
    IF "shared" \notin DOMAIN h THEN h
    ELSE [h EXCEPT !.activeFiles =
             [f \in DOMAIN h.activeFiles |->
                 IF f \in h.shared /\ f \in DOMAIN activeFiles
                 THEN activeFiles[f] ELSE h.activeFiles[f]]]

\* no tracker event, tick or reset since the previous getStats call
Quiet(op) ==
    \/ op.op = "getStats"
    \/ op.op = "clock" /\ op.quiet

\* activityTracker.getStats() by a caller that keeps the result
GetStats ==
    /\ tracking
    /\ held' = getStats(now) @@ [shared |-> SharedEntries]
    /\ lastOp' = [op |-> "getStats", quiet |-> Quiet(lastOp),
                  waited |-> IF Quiet(lastOp) THEN now - held.sessionEnd ELSE 0]
    /\ UNCHANGED <<envVars, dbVars, trkVars, hostVars, saveInterval, syncInterval,
                   statusUpdateInterval, live, subscribed, apiToken, clientToken,
                   inflight, pendingRetry>>

\* the clock between two calls
SnapAdvance ==
    /\ now + ONE_SECOND <= MaxExtSeconds * ONE_SECOND
    /\ now' = now + ONE_SECOND
    /\ lastOp' = [op |-> "clock", quiet |-> Quiet(lastOp)]
    /\ UNCHANGED <<tz, dbVars, trkVars, hostVars, extVars>>

SnapshotSpecInit ==
    /\ BufferInit
    /\ TrackerInit(0)
    /\ windowFocused = TRUE
    /\ docs = {"a.ts"}
    /\ edits = {<<TypedNewline>>}
    /\ hostActive = ""
    /\ ExtInit
    /\ lastOp = [op |-> "init"]

\* snapshots taken between ticks, edits and flushes (a flush that saves
\* runs resetStats)
SnapshotNext ==
    \/ GetStats
    \/ TickTime
    \/ OnDidChangeTextDocument
    \/ OnDidChangeActiveTextEditor
    \/ SaveTimer
    \/ SnapAdvance
SpecSnapshot == SnapshotSpecInit /\ [][SnapshotNext]_vars

\* ======================================================= properties
Age(a) == now - a.timestamp
SameButSynced(a, b) == b = [a EXCEPT !.synced = b.synced]

\* C2: markAsSynced(S) sets synced=true on exactly the stored records whose
\* creation timestamp is in S, changes no other record and no other field, and
\* neither adds nor removes a record.
C2_MarkAsSyncedFrame ==
    [][lastOp'.op = "markAsSynced" =>
        /\ Len(activities') = Len(activities)
        /\ \A i \in DOMAIN activities :
              activities'[i] =
                  [activities[i] EXCEPT
                      !.synced = @ \/ activities[i].timestamp \in lastOp'.keys]]_vars

\* a markAsSynced has marked a record of S and left an unsynced record outside S
C2_Witness ==
    /\ lastOp.op = "markAsSynced"
    /\ \E a \in Range(activities) : a.timestamp \in lastOp.keys /\ a.synced
    /\ \E b \in Range(activities) : b.timestamp \notin lastOp.keys /\ ~b.synced

\* C6: any two distinct stored records have different creation timestamps.
C6_UniqueTimestamps ==
    \A i, j \in DOMAIN activities :
        i # j => activities[i].timestamp # activities[j].timestamp

\* C7: a record seen with synced=true is never seen with synced=false later,
\* whatever operation (including a save to disk and a reload on restart) runs.
C7_SyncedNeverReverts ==
    [][\A i \in DOMAIN activities, j \in DOMAIN activities' :
          (activities[i].id = activities'[j].id /\ activities[i].synced)
              => activities'[j].synced]_vars

\* C8: no operation of the buffer removes a record with synced=false, whatever
\* its age; the record stays, unchanged but for its synced flag.
C8_UnsyncedRetained ==
    [][\A i \in DOMAIN activities :
          ~activities[i].synced =>
              \E j \in DOMAIN activities' :
                  /\ activities'[j].id = activities[i].id
                  /\ SameButSynced(activities[i], activities'[j])]_vars

\* a cleanup removed an expired record and kept an unsynced one older than 30 days
C8_Witness ==
    /\ lastOp.op = "cleanupOldRecords"
    /\ lastOp.keys # {}
    /\ \E a \in Range(activities) : ~a.synced /\ Age(a) > THIRTY_DAYS

\* C9 as stated: cleanupOldRecords removes exactly the synced records whose age
\* exceeds 30 days (a synced record aged exactly 30 days is kept).
C9_RemovesOlderThan30Days ==
    [][lastOp'.op = "cleanupOldRecords" =>
        activities' =
            SelectSeq(activities,
                      LAMBDA a : ~(a.synced /\ Age(a) > THIRTY_DAYS))]_vars

\* C9 amended: cleanupOldRecords removes exactly the synced records whose age
\* is at least 30 days and keeps all others, in their order.
C9_RemovesAtLeast30Days ==
    [][lastOp'.op = "cleanupOldRecords" =>
        activities' =
            SelectSeq(activities,
                      LAMBDA a : ~(a.synced /\ Age(a) >= THIRTY_DAYS))]_vars

\* a cleanup removed a record aged exactly 30 days and kept a younger synced one
C9_Witness ==
    /\ lastOp.op = "cleanupOldRecords"
    /\ (now - THIRTY_DAYS) \in lastOp.keys
    /\ \E a \in Range(activities) : a.synced /\ Age(a) < THIRTY_DAYS

\* the time a step adds to file f (0 if f has no entry before or after)
Gain(f) ==
    IF f \in DOMAIN activeFiles /\ f \in DOMAIN activeFiles'
    THEN activeFiles'[f].timeSpent - activeFiles[f].timeSpent ELSE 0
AccruingTick == lastOp'.op = "tickTime" /\ lastOp'.outcome = "accrued"

\* C10 as stated: a tick that is neither skipped nor interval-capped adds
\* exactly min(elapsed since the previous tick, 2000 ms) to the focused file.
C10_AddsMinSincePreviousTick ==
    [][AccruingTick =>
          Gain(currentActiveFile) = Min(now - prevTickAt, MAX_TIME_PER_TICK)]_vars

\* C10 amended: such a tick adds exactly min(now - lastTickTime, 2000 ms) to
\* the focused file, lastTickTime being the previous tick or, if later, the
\* last window refocus or resetStats; no tick adds more than 2000 ms to any file.
C10_AddsMinSinceLastTickTime ==
    [][/\ lastTickTime >= prevTickAt
       /\ AccruingTick =>
             Gain(currentActiveFile) = Min(now - lastTickTime, MAX_TIME_PER_TICK)
       /\ lastOp'.op = "tickTime" =>
             \A f \in Files : Gain(f) <= MAX_TIME_PER_TICK]_vars

\* a tick 5000 ms after the previous one has added 2000 ms
C10_Witness ==
    /\ lastOp.op = "tickTime"
    /\ lastOp.outcome = "accrued"
    /\ lastOp.sincePrevTick = 5 * ONE_SECOND
    /\ lastOp.added = MAX_TIME_PER_TICK
    /\ activeFiles[currentActiveFile].timeSpent >= MAX_TIME_PER_TICK

\* the request whose response a step handles
Answered == CHOOSE r \in BagToSet(inflight) : inflight' = inflight (-) SetToBag({r})

\* C1: after a successful return the only records whose synced flag changed
\* are records of the sent set; a record ingested while the request was
\* outstanding still has synced=false.
C1_OnlySentRecordsMarked ==
    [][lastOp'.op = "response" =>
          Flipped(activities, activities') \subseteq Ids(Answered.batch)]_vars

\* C3: whenever the bulk request of any trigger returns success, every record
\* sent in it has synced=true in the buffer afterwards, also after shutdown
\* has begun.
C3_SuccessMarksSent ==
    [][(lastOp'.op = "response" /\ lastOp'.ok) =>
          \A a \in Range(activities') :
              a.id \in Ids(Answered.batch) => a.synced]_vars

\* a periodic or forced sync has run
SyncRan(op) == op.op = "sync" /\ op.origin \in {"timer", "force"} /\ op.ran

C5_IngestedOncePerReset ==
    \A f \in Files : ingested[f] <= 1

\* a step that runs resetStats: on its own, or after the flush timer's save
ResetStep(op) ==
    \/ op.op = "resetStats"
    \/ op.op = "saveInterval" /\ op.saved

\* C11: each file's accumulated time is at most the clock time elapsed since
\* its first-seen timestamp (since the last reset), and between resets it never
\* decreases.
C11_TimeWithinElapsed ==
    [][/\ \A f \in DOMAIN activeFiles' :
             activeFiles'[f].timeSpent <= now' - activeFiles'[f].firstActive
       /\ ~ResetStep(lastOp') =>
             \A f \in DOMAIN activeFiles :
                 activeFiles'[f].timeSpent >= activeFiles[f].timeSpent]_vars

\* C12: between two resets the time accrued over all resources never exceeds
\* MAX_TIME_PER_SAVE_INTERVAL (35000 ms), the per-interval counter neither,
\* and a tick whose contribution would push the counter above that ceiling
\* changes no resource and leaves the counter as it was.
C12_IntervalCeiling ==
    [][/\ SumTime(activeFiles', FileOrder) <= MAX_TIME_PER_SAVE_INTERVAL
       /\ intervalTimeAccumulated' <= MAX_TIME_PER_SAVE_INTERVAL
       /\ (/\ lastOp'.op = "tickTime"
           /\ intervalTimeAccumulated + Min(now - lastTickTime, MAX_TIME_PER_TICK)
                  > MAX_TIME_PER_SAVE_INTERVAL)
          => /\ activeFiles' = activeFiles
             /\ intervalTimeAccumulated' = intervalTimeAccumulated]_vars

\* C12 witness: a tick was refused with the counter exactly at the ceiling
C12_Witness ==
    /\ lastOp.op = "tickTime"
    /\ lastOp.outcome = "capped"
    /\ intervalTimeAccumulated = MAX_TIME_PER_SAVE_INTERVAL
    /\ SumTime(activeFiles, FileOrder) = MAX_TIME_PER_SAVE_INTERVAL

\* the records a step appended, and the snapshot entry a record was made of
\* (the documents' languages are distinct)
Appended == SubSeq(activities', Len(activities) + 1, Len(activities'))
MadeOf(r, stats) ==
    {f \in DOMAIN stats.activeFiles : stats.activeFiles[f].language = r.language}
WholeSeconds(fa) == fa.timeSpent \div ONE_SECOND
NetLines(fa) == Max(0, fa.linesAdded - fa.linesDeleted)

\* C13: every record saveActivity stores has net-lines equal to
\* max(0, linesAdded - linesDeleted) of the snapshot resource it was made of,
\* and no stored record has negative net-lines.
C13_NetLinesClamped ==
    [][lastOp'.op = "saveActivity" =>
          /\ \A i \in DOMAIN Appended :
                 /\ MadeOf(Appended[i], held) # {}
                 /\ \A f \in MadeOf(Appended[i], held) :
                        Appended[i].lines = NetLines(held.activeFiles[f])
          /\ \A i \in DOMAIN activities' : activities'[i].lines >= 0]_vars

\* C13 witness: a record was stored for a resource with more lines deleted
\* than added, next to one for a resource with more added than deleted
C13_Witness ==
    /\ lastOp.op = "saveActivity"
    /\ \E f, g \in DOMAIN held.activeFiles :
          /\ held.activeFiles[f].linesDeleted > held.activeFiles[f].linesAdded
          /\ held.activeFiles[g].linesAdded > held.activeFiles[g].linesDeleted
          /\ \E i, j \in DOMAIN activities :
                /\ activities[i].timestamp \in lastOp.keys
                /\ activities[j].timestamp \in lastOp.keys
                /\ activities[i].language = held.activeFiles[f].language
                /\ activities[j].language = held.activeFiles[g].language
                /\ activities[i].lines = 0
                /\ activities[j].lines > 0

\* C15: saveActivity appends exactly one unsynced record for each snapshot
\* resource with time-spent > 0 whole seconds or net-lines # 0 and none for
\* the others, leaves the existing records as they were, and no stored
\* record has both time 0 and lines 0.
C15_OneRecordPerActiveResource ==
    [][lastOp'.op = "saveActivity" =>
          /\ SubSeq(activities', 1, Len(activities)) = activities
          /\ \A f \in DOMAIN held.activeFiles :
                 LET made == {i \in DOMAIN Appended : f \in MadeOf(Appended[i], held)}
                     fa == held.activeFiles[f]
                 IN  Cardinality(made) =
                        IF WholeSeconds(fa) > 0 \/ NetLines(fa) # 0 THEN 1 ELSE 0
          /\ \A i \in DOMAIN Appended : ~Appended[i].synced
          /\ \A i \in DOMAIN activities' :
                 ~(activities'[i].time = 0 /\ activities'[i].lines = 0)]_vars

\* the edit event made of the single removal of lines 0 to 2
IsDeleteThree(op) ==
    op.op = "trackFileChange" /\ op.changes = <<DeleteThreeLines>>
\* the ledger entry of f as it is before the step, zeroes if there is none
Before(f) ==
    IF f \in DOMAIN activeFiles THEN activeFiles[f]
    ELSE NewFileActivity(f, now)
\* the entries whose only line changes are three lines deleted
OnlyThreeDeleted ==
    {f \in DOMAIN activeFiles :
        activeFiles[f].linesDeleted = 3 /\ activeFiles[f].linesAdded = 0}
\* what a flush that saves stores for such an entry: one record with lines n
FlushStoresLines(n) ==
    (lastOp'.op = "saveInterval" /\ lastOp'.saved) =>
        \A f \in OnlyThreeDeleted :
            \E i \in DOMAIN Appended :
                /\ Appended[i].language = activeFiles[f].language
                /\ Appended[i].lines = n
\* the edit adds 3 to linesDeleted and nothing to linesAdded
EditDeletesThree ==
    IsDeleteThree(lastOp') =>
        LET f == lastOp'.file
        IN  /\ activeFiles'[f].linesDeleted = Before(f).linesDeleted + 3
            /\ activeFiles'[f].linesAdded = Before(f).linesAdded

\* C14 as stated: an edit with startLine 0, endLine 3 and no line break in
\* the inserted text gives the resource linesDeleted = 3 and linesAdded = 0,
\* and ingesting that resource stores a record with net-lines 3.
C14_DeleteThreeStoresThree ==
    [][EditDeletesThree /\ FlushStoresLines(3)]_vars

\* C14 amended: the same edit gives linesDeleted = 3 and linesAdded = 0, and
\* ingesting that resource stores a record with net-lines max(0, 0 - 3) = 0.
C14_DeleteThreeStoresZero ==
    [][EditDeletesThree /\ FlushStoresLines(0)]_vars

\* C14 witness: the host reported only removals of three lines, and the
\* flush stored a record with no time: the record of the removal
C14_Witness ==
    /\ edits = {<<DeleteThreeLines>>}
    /\ lastOp.op = "saveInterval"
    /\ lastOp.saved
    /\ activities # <<>>
    /\ activities[Len(activities)].timestamp = now
    /\ activities[Len(activities)].time = 0
    /\ activities[Len(activities)].lines = 0

\* a getStats call that follows another one with nothing but the clock between
SecondQuietCall == lastOp'.op = "getStats" /\ lastOp'.quiet
\* getStats assigns no field of the tracker
GetStatsReadsOnly == lastOp'.op = "getStats" => UNCHANGED trkVars

\* C16 as stated: two consecutive getStats() calls with no tracker event,
\* tick or reset between them return equal snapshots, the snapshot timestamp
\* included, and getStats changes no tracker state.
C16_QuietSnapshotsEqual ==
    [][/\ SecondQuietCall => held' = held
       /\ GetStatsReadsOnly]_vars

\* C16 amended: two such calls return snapshots equal in every field but the
\* snapshot timestamp (sessionEnd), which is the clock value of each call,
\* and getStats changes no tracker state.
C16_QuietSnapshotsEqualButTimestamp ==
    [][/\ SecondQuietCall =>
             /\ held' = [held EXCEPT !.sessionEnd = now]
             /\ held'.sessionEnd - held.sessionEnd = lastOp'.waited
       /\ GetStatsReadsOnly]_vars

\* C16 witness: the second of two quiet calls, made later than the first, on
\* a ledger with an edited file in it
C16_Witness ==
    /\ lastOp.op = "getStats"
    /\ lastOp.quiet
    /\ lastOp.waited > 0
    /\ held.totalKeystrokes > 0
    /\ DOMAIN held.activeFiles # {}

\* what the flush stores for ledger entry fa: its whole seconds and its
\* clamped line difference, if it stores anything
StoredFor(fa) ==
    \E i \in DOMAIN Appended :
        /\ Appended[i].language = fa.language
        /\ Appended[i].time = WholeSeconds(fa)
        /\ Appended[i].lines = NetLines(fa)

TickSkips ==
    \/ ~windowFocused
    \/ currentActiveFile = ""
    \/ now - lastActivityTime > INACTIVITY_THRESHOLD

\* C18: a tick adds no time and marks the session inactive when the window
\* is unfocused, or no resource is focused, or more than 120000 ms have
\* passed since the last activity; with exactly 120000 ms since the last
\* activity (window and resource focused) the tick still accrues.
C18_SkipsOnlyBeyondThreshold ==
    [][lastOp'.op = "tickTime" =>
          /\ TickSkips =>
                /\ activeFiles' = activeFiles
                /\ intervalTimeAccumulated' = intervalTimeAccumulated
                /\ isUserActive' = FALSE
          /\ (/\ ~TickSkips
              /\ now - lastActivityTime = 120000 \div UNIT_MS
              /\ currentActiveFile \in DOMAIN activeFiles)
             => /\ activeFiles'[currentActiveFile].timeSpent =
                      activeFiles[currentActiveFile].timeSpent
                         + Min(now - lastTickTime, MAX_TIME_PER_TICK)
                /\ isUserActive' = TRUE]_vars

\* C18 witness: a tick exactly 120000 ms after the last activity added time
C18_Witness ==
    /\ lastOp.op = "tickTime"
    /\ lastOp.outcome = "accrued"
    /\ lastOp.added > 0
    /\ now - lastActivityTime = 120000 \div UNIT_MS

\* C18 witness of the other side: a tick more than 120000 ms after the last
\* activity, window and resource focused, was skipped
C18_WitnessIdle ==
    /\ lastOp.op = "tickTime"
    /\ lastOp.outcome = "idle"
    /\ windowFocused
    /\ currentActiveFile # ""
    /\ ~isUserActive

\* C19: resetStats sets timeSpent, keystrokes, linesAdded and linesDeleted of
\* every ledger entry to 0, the per-interval counter and the keystroke total
\* to 0 and the session start to the clock value; the ledger's keys, each
\* entry's language and the focused resource stay as they were.
C19_ResetZeroesCountersOnly ==
    [][lastOp'.op = "resetStats" =>
          /\ \A f \in DOMAIN activeFiles' :
                 /\ activeFiles'[f].timeSpent = 0
                 /\ activeFiles'[f].keystrokes = 0
                 /\ activeFiles'[f].linesAdded = 0
                 /\ activeFiles'[f].linesDeleted = 0
          /\ intervalTimeAccumulated' = 0
          /\ totalKeystrokes' = 0
          /\ sessionStart' = now
          /\ DOMAIN activeFiles' = DOMAIN activeFiles
          /\ \A f \in DOMAIN activeFiles :
                 activeFiles'[f].language = activeFiles[f].language
          /\ currentActiveFile' = currentActiveFile]_vars

\* C19 witness: a reset of a ledger that had time and keystrokes in it, with
\* both documents in the ledger and one of them focused, later than the
\* construction of the tracker
C19_Witness ==
    /\ lastOp.op = "resetStats"
    /\ lastOp.dirty
    /\ DOMAIN activeFiles = Files
    /\ currentActiveFile # ""
    /\ sessionStart > 0

\* C20: opening a resource that has a ledger entry leaves the entry's
\* counters, accumulated time and first-seen timestamp as they were and adds
\* no entry; opening a resource without one adds exactly one entry, with all
\* counters zero.
C20_OpenKeepsExistingEntry ==
    [][lastOp'.op = "trackFileOpen" =>
          LET f == lastOp'.file
          IN  /\ f \in DOMAIN activeFiles =>
                    /\ DOMAIN activeFiles' = DOMAIN activeFiles
                    /\ activeFiles'[f].keystrokes = activeFiles[f].keystrokes
                    /\ activeFiles'[f].linesAdded = activeFiles[f].linesAdded
                    /\ activeFiles'[f].linesDeleted = activeFiles[f].linesDeleted
                    /\ activeFiles'[f].timeSpent = activeFiles[f].timeSpent
                    /\ activeFiles'[f].firstActive = activeFiles[f].firstActive
              /\ f \notin DOMAIN activeFiles =>
                    /\ DOMAIN activeFiles' = DOMAIN activeFiles \cup {f}
                    /\ activeFiles'[f].keystrokes = 0
                    /\ activeFiles'[f].linesAdded = 0
                    /\ activeFiles'[f].linesDeleted = 0
                    /\ activeFiles'[f].timeSpent = 0
              /\ \A g \in DOMAIN activeFiles \ {f} :
                    activeFiles'[g] = activeFiles[g]]_vars

\* C20 witness: a document was opened whose entry, first seen earlier, has
\* time, keystrokes and deleted lines in it
C20_Witness ==
    /\ lastOp.op = "trackFileOpen"
    /\ activeFiles[lastOp.file].timeSpent > 0
    /\ activeFiles[lastOp.file].keystrokes > 0
    /\ activeFiles[lastOp.file].linesDeleted > 0
    /\ activeFiles[lastOp.file].firstActive < now

\* C20 witness of the other side: a second document was opened for the
\* first time next to a filled entry
C20_WitnessNew ==
    /\ lastOp.op = "trackFileOpen"
    /\ DOMAIN activeFiles = Files
    /\ activeFiles[lastOp.file].firstActive = now
    /\ now > 0
    /\ \E g \in Files \ {lastOp.file} : activeFiles[g].timeSpent > 0

\* C21: closing a resource clears the focused-resource pointer if and only
\* if it pointed at that resource, and keeps the resource's ledger entry with
\* its accumulated time and counters; the next flush that saves stores the
\* time and lines of every entry, closed ones included.
C21_CloseKeepsEntry ==
    [][/\ lastOp'.op = "trackFileClose" =>
             LET f == lastOp'.file
             IN  /\ currentActiveFile' =
                       IF currentActiveFile = f THEN "" ELSE currentActiveFile
                 /\ DOMAIN activeFiles' = DOMAIN activeFiles
                 /\ \A g \in DOMAIN activeFiles :
                       /\ activeFiles'[g].timeSpent = activeFiles[g].timeSpent
                       /\ activeFiles'[g].keystrokes = activeFiles[g].keystrokes
                       /\ activeFiles'[g].linesAdded = activeFiles[g].linesAdded
                       /\ activeFiles'[g].linesDeleted = activeFiles[g].linesDeleted
                       /\ activeFiles'[g].firstActive = activeFiles[g].firstActive
       /\ (lastOp'.op = "saveInterval" /\ lastOp'.saved) =>
             \A f \in DOMAIN activeFiles :
                 (WholeSeconds(activeFiles[f]) > 0
                    \/ activeFiles[f].linesAdded # activeFiles[f].linesDeleted)
                 => StoredFor(activeFiles[f])]_vars

\* C21 witness: the focused document was closed (the pointer is cleared while
\* the host still shows it) after time had accrued to it, and the flush that
\* followed stored that time
C21_Witness ==
    /\ lastOp.op = "saveInterval"
    /\ lastOp.saved
    /\ currentActiveFile = ""
    /\ hostActive # ""
    /\ activities # <<>>
    /\ \E i \in DOMAIN activities :
          /\ activities[i].timestamp = now
          /\ activities[i].time > 0
          /\ activities[i].language = DocLanguage[hostActive]

\* the time a step adds over all files
TotalGain == Gain("a.ts") + Gain("b.py")

\* C22: when the window regains focus the idle clock is set to the moment of
\* refocus, and the first tick after the refocus adds no more than the time
\* since the refocus: nothing of the time the window was unfocused.
C22_RefocusDropsTimeAway ==
    [][/\ (lastOp'.op = "onDidChangeWindowState" /\ windowFocused' /\ ~windowFocused)
          => lastActivityTime' = now
       /\ (lastOp'.op = "tickTime" /\ Refocused(lastOp)) => TotalGain = 0
       /\ (lastOp'.op = "tickTime" /\ lastOp.op = "clock" /\ lastOp.sinceFocus >= 0)
          => TotalGain <= lastOp.sinceFocus]_vars

\* C22 witness: the first tick after a refocus added time, and less than the
\* time since the previous tick would have given
C22_Witness ==
    /\ lastOp.op = "tickTime"
    /\ lastOp.outcome = "accrued"
    /\ lastOp.added > 0
    /\ lastOp.added < Min(lastOp.sincePrevTick, MAX_TIME_PER_TICK)
    /\ lastOp.added = now - lastActivityTime

\* an operation of the buffer that ends with saveDatabase
Writes(op) == op.op \in {"saveActivity", "markAsSynced", "cleanupOldRecords"}

\* C23: whenever saveActivity, markAsSynced or cleanupOldRecords has returned,
\* the file holds the full in-memory record set, so a restart at that point
\* reloads exactly the records and synced flags of the last returned call.
C23_FileHoldsRecordsOnReturn ==
    Writes(lastOp) => loadDatabase(disk) = activities

\* C24: whatever the file holds, loading yields the stored list verbatim or
\* the empty store, and no later operation of the buffer fails on the result.
C24_LoadAlwaysUsable ==
    /\ lastOp.op = "loadDatabase" =>
          \/ activities = <<>>
          \/ activities = disk.content /\ IsArray(activities)
    /\ "threw" \in DOMAIN lastOp => ~lastOp.threw

\* what the operation named by op makes of the records, write or no write
Produced(op) ==
    IF op.op = "markAsSynced"
    THEN {markAsSynced(activities,
                       SelectSeq(activities, LAMBDA a : a.timestamp \in op.keys))}
    ELSE {saveActivity(activities, stats, now, nextId) : stats \in HarnessStats}

\* C25: a failed storage write does not stop the operation: the records in
\* memory are what the operation produced and the file is as it was; a
\* successful write leaves in the file all the records in memory, those of
\* earlier failed calls included.
C25_FailedWriteKeepsMemory ==
    [][lastOp'.op \in {"saveActivity", "markAsSynced"} =>
          /\ activities' \in Produced(lastOp')
          /\ ~lastOp'.ok => disk' = disk
          /\ lastOp'.ok => loadDatabase(disk') = activities']_vars

\* C25 witness: a write succeeded after a failed one, and the file holds two
\* records
C25_Witness ==
    /\ Writes(lastOp)
    /\ lastOp.ok
    /\ lastOp.behind
    /\ Len(activities) >= 2
    /\ loadDatabase(disk) = activities

\* C26: a forced sync shows the success message only when the records it sent
\* are marked synced, and the failure of its bulk request is shown as an error.
C26_ForceSyncReportsOutcome ==
    [][/\ (lastOp'.op = "sync" /\ lastOp'.origin = "force"
            /\ lastOp'.shown = "synced") =>
           \A i \in 1..Len(activities') :
               activities'[i].id \in lastOp'.batch => activities'[i].synced
       /\ (lastOp'.op = "response" /\ lastOp'.origin = "force"
            /\ ~lastOp'.ok) => lastOp'.shown = "error"]_vars

TimerCallback(op) ==
    \/ op.op \in {"tickTime", "saveInterval", "statusUpdateInterval",
                  "cleanupInterval"}
    \/ op.op = "sync" /\ op.origin = "timer"

\* C28: once a shutdown path has started, no timer callback runs again.
C28_NoTimerAfterShutdown ==
    [][(~subscribed \/ ~live) => ~TimerCallback(lastOp')]_vars

\* a step of one of the two shutdown paths, or of a continuation of theirs
FinalSync(op) == op.op = "sync" /\ op.origin \in {"dispose", "deactivate"}
FinalResponse(op) ==
    op.op = "response" /\ op.origin \in {"dispose", "deactivate"}

\* C29: no error of the final flush and sync leaves a shutdown path, and an
\* error in the continuation of its bulk request is logged.
C29_FinalErrorsStayInside ==
    [][/\ FinalSync(lastOp') => ~lastOp'.escaped
       /\ (FinalResponse(lastOp') /\ lastOp'.error) => lastOp'.logged]_vars

\* record id is stored with this synced flag
StoredWith(id, flag) ==
    \E i \in 1..Len(activities) :
        activities[i].id = id /\ activities[i].synced = flag

\* C30: while the extension runs with a token, the sync timer keeps firing and
\* the collector keeps accepting, every stored unsynced record is eventually
\* stored as synced.
C30_UnsyncedEventuallySynced ==
    \A id \in 1..MaxRecords : StoredWith(id, FALSE) ~> StoredWith(id, TRUE)

\* C30: two records ingested at different times are both synced once a
\* request is accepted after another had failed.
C30_Witness ==
    /\ lastOp.op = "response"
    /\ lastOp.ok
    /\ Len(activities) >= 2
    /\ activities[1].timestamp # activities[2].timestamp
    /\ \A i \in 1..Len(activities) : activities[i].synced
    /\ pendingRetry # {}

\* C31: a periodic flush that stored a snapshot starts a bulk request for the
\* unsynced records.
C31_FlushStartsSync ==
    [][(lastOp'.op = "saveInterval" /\ lastOp'.saved /\ apiToken) =>
          inflight' # inflight]_vars

\* the line counts of one edit range as stated: full lines deleted, line
\* breaks inserted, and the lines that count as replaced
RangeDeleted(c) == Max(0, c.endLine - c.startLine)
RangeAdded(c) == Cardinality({i \in 1..Len(c.text) : c.text[i] = "\n"})
RangeOverlap(c) ==
    IF RangeDeleted(c) > 0 /\ RangeAdded(c) > 0
    THEN Min(RangeDeleted(c), RangeAdded(c)) ELSE 0
RECURSIVE SumDeleted(_)
SumDeleted(changes) ==
    IF changes = <<>> THEN 0
    ELSE RangeDeleted(Head(changes)) - RangeOverlap(Head(changes))
            + SumDeleted(Tail(changes))
RECURSIVE SumAdded(_)
SumAdded(changes) ==
    IF changes = <<>> THEN 0
    ELSE RangeAdded(Head(changes)) - RangeOverlap(Head(changes))
            + SumAdded(Tail(changes))
EditStep(op) == op.op = "trackFileChange"

\* C32: an edit event adds to the resource's linesDeleted the sum over its
\* ranges of max(0, endLine - startLine) - overlap and to its linesAdded the
\* sum of line breaks inserted - overlap (0 and 1 for the range 0..1 replaced
\* by two line breaks), and no counter is ever negative.
C32_LineCountersPerRange ==
    [][EditStep(lastOp') =>
          LET f == lastOp'.file
              changes == lastOp'.changes
              deleted == activeFiles'[f].linesDeleted - Before(f).linesDeleted
              added == activeFiles'[f].linesAdded - Before(f).linesAdded
          IN  /\ deleted = SumDeleted(changes)
              /\ added = SumAdded(changes)
              /\ changes = <<ReplaceOneByTwo>> => deleted = 0 /\ added = 1
              /\ \A g \in DOMAIN activeFiles' :
                    /\ activeFiles'[g].linesDeleted >= 0
                    /\ activeFiles'[g].linesAdded >= 0]_vars

\* C32: an event of two ranges, one of them a replacement, on a resource that
\* had counted lines of an earlier event.
C32_Witness ==
    /\ EditStep(lastOp)
    /\ Len(lastOp.changes) = 2
    /\ \E i \in 1..2 : RangeOverlap(lastOp.changes[i]) > 0
    /\ activeFiles[lastOp.file].linesAdded > SumAdded(lastOp.changes)
    /\ SumAdded(lastOp.changes) > 0
    /\ SumDeleted(lastOp.changes) > 0

\* the keystrokes of an edit event as stated
RECURSIVE SumKeystrokes(_)
SumKeystrokes(changes) ==
    IF changes = <<>> THEN 0
    ELSE Max(Len(Head(changes).text), Head(changes).rangeLength)
            + SumKeystrokes(Tail(changes))
\* the per-resource keystroke counts of a ledger, added up
LedgerKeystrokes(files) ==
    (IF "a.ts" \in DOMAIN files THEN files["a.ts"].keystrokes ELSE 0)
        + (IF "b.py" \in DOMAIN files THEN files["b.py"].keystrokes ELSE 0)

\* C33: an edit event adds the sum over its ranges of max(inserted length,
\* replaced length) to the resource's keystrokes and to the session total,
\* and after every step the session total is the sum of the resources'
\* keystrokes.
C33_KeystrokesPerRange ==
    [][/\ EditStep(lastOp') =>
             LET f == lastOp'.file
                 k == SumKeystrokes(lastOp'.changes)
             IN  /\ activeFiles'[f].keystrokes = Before(f).keystrokes + k
                 /\ totalKeystrokes' = totalKeystrokes + k
       /\ totalKeystrokes' = LedgerKeystrokes(activeFiles')]_vars

\* C33: both resources have counted keystrokes, and the last event removed a
\* range longer than the text put in.
C33_Witness ==
    /\ EditStep(lastOp)
    /\ \E i \in 1..Len(lastOp.changes) :
          lastOp.changes[i].rangeLength > Len(lastOp.changes[i].text)
    /\ \A f \in Files : f \in DOMAIN activeFiles /\ activeFiles[f].keystrokes > 0
    /\ totalKeystrokes = LedgerKeystrokes(activeFiles)

\* the bucket of a resource of the snapshot, and the resources of a bucket
BucketOf(fa) ==
    LET mid == (fa.firstActive + fa.lastActive) \div 2
    IN  <<fa.language, DateStr(mid), LocalHour(mid)>>
InBucket(files, S, b) == {f \in S : BucketOf(files[f]) = b}
RECURSIVE SumSeconds(_, _)
SumSeconds(files, S) ==
    IF S = {} THEN 0
    ELSE LET f == CHOOSE x \in S : TRUE
         IN  WholeSeconds(files[f]) + SumSeconds(files, S \ {f})
RECURSIVE SumNetLines(_, _)
SumNetLines(files, S) ==
    IF S = {} THEN 0
    ELSE LET f == CHOOSE x \in S : TRUE
         IN  NetLines(files[f]) + SumNetLines(files, S \ {f})
\* one write per bucket of the resources S, carrying the sums over the bucket
OneWritePerBucket(requests, files, S) ==
    LET buckets == {BucketOf(files[f]) : f \in S}
    IN  /\ Len(requests) = Cardinality(buckets)
        /\ \A b \in buckets :
              \E i \in 1..Len(requests) :
                  /\ <<requests[i].language, requests[i].date, requests[i].hour>> = b
                  /\ requests[i].time = SumSeconds(files, InBucket(files, S, b))
                  /\ requests[i].lines = SumNetLines(files, InBucket(files, S, b))
Sent(op) == op.op = "sendActivity" /\ ~op.threw

\* C34 as stated: sendActivity issues one write per (language, date, hour)
\* bucket of the snapshot's resources, carrying the bucket's sums of whole
\* seconds and net lines, and no write when no resource has accrued time.
C34_OneWritePerBucketOfResources ==
    Sent(lastOp) =>
        LET files == held.activeFiles
        IN  IF \A f \in DOMAIN files : files[f].timeSpent = 0
            THEN lastOp.requests = <<>>
            ELSE OneWritePerBucket(lastOp.requests, files, DOMAIN files)

\* C34 amended: the buckets are those of the resources with at least one
\* whole second of time; a resource with less takes no part in any write, and
\* there is no write when there is no such resource.
C34_OneWritePerBucketOfTimedResources ==
    Sent(lastOp) =>
        LET files == held.activeFiles
            timed == {f \in DOMAIN files : WholeSeconds(files[f]) > 0}
        IN  /\ OneWritePerBucket(lastOp.requests, files, timed)
            /\ timed = {} => lastOp.requests = <<>>

\* C34: two resources of one bucket were written as one request, while a
\* resource of another bucket with lines and half a second was left out.
C34_Witness ==
    /\ Sent(lastOp)
    /\ Len(lastOp.requests) = 1
    /\ lastOp.requests[1].time = 2
    /\ lastOp.requests[1].lines = 4
    /\ DOMAIN held.activeFiles = Range(SendPaths)
    /\ held.activeFiles["b.py"].timeSpent = ONE_SECOND \div 2
    /\ held.activeFiles["b.py"].linesAdded = 3

\* calendar day and hour of day of instant t in the zone at offset z
DayIn(t, z) == (t + z) \div DAY_UNITS
HourIn(t, z) == ((t + z) \div HOUR_UNITS) % 24
\* record r describes the midpoint of entry fa in the zone at offset z
DescribesMidpoint(r, fa, z) ==
    LET mid == (fa.firstActive + fa.lastActive) \div 2
    IN  /\ fa.firstActive <= mid
        /\ mid <= fa.lastActive
        /\ r.date = DayIn(mid, z)
        /\ r.hour = HourIn(mid, z)
        /\ r.hour \in 0..23

\* C35: the date and the hour of every stored record are those of the
\* midpoint of its resource's first-seen and last-seen times in one zone, UTC
\* or the local one.
C35_DateAndHourInOneZone ==
    \A i \in 1..Len(activities) :
        \E f \in DOMAIN held.activeFiles, z \in {0, tz} :
            /\ activities[i].language = held.activeFiles[f].language
            /\ DescribesMidpoint(activities[i], held.activeFiles[f], z)

\* C36: a request that the collector accepts carries no record that an
\* accepted request has carried before (such a record is already marked).
C36_AcceptedAtMostOnce ==
    [][(lastOp'.op = "response" /\ lastOp'.ok) =>
          \A i \in 1..Len(activities) :
              activities[i].id \in Ids(Answered.batch) => ~activities[i].synced]_vars

\* the accumulated time of the ledger entries, added up
LedgerTime(files) ==
    (IF "a.ts" \in DOMAIN files THEN files["a.ts"].timeSpent ELSE 0)
        + (IF "b.py" \in DOMAIN files THEN files["b.py"].timeSpent ELSE 0)

\* C37: the time of the ledger entries adds up to intervalTimeAccumulated,
\* and getSessionTime is at most 35000 ms.
C37_LedgerTimeIsIntervalCounter ==
    /\ LedgerTime(activeFiles) = intervalTimeAccumulated
    /\ getSessionTime <= MAX_TIME_PER_SAVE_INTERVAL

\* C37: two resources share the time of an interval that has reached the
\* ceiling.
C37_Witness ==
    /\ \A f \in Files : f \in DOMAIN activeFiles /\ activeFiles[f].timeSpent > 0
    /\ getSessionTime = MAX_TIME_PER_SAVE_INTERVAL
    /\ intervalTimeAccumulated = MAX_TIME_PER_SAVE_INTERVAL

\* the seconds the records appended by a step hold for a language
RECURSIVE SecondsOf(_, _)
SecondsOf(recs, language) ==
    IF recs = <<>> THEN 0
    ELSE (IF Head(recs).language = language THEN Head(recs).time ELSE 0)
            + SecondsOf(Tail(recs), language)
FlushStep(op) == op.op = "saveInterval" /\ op.saved

\* C38: for every resource of the snapshot, a flush stores whole seconds that
\* are at most its accrued time and more than its accrued time less one
\* second, and the ledger starts from zero afterwards.
C38_FlushLosesLessThanASecond ==
    [][FlushStep(lastOp') =>
          \A f \in DOMAIN activeFiles :
              LET accrued == activeFiles[f].timeSpent
                  stored == SecondsOf(Appended, activeFiles[f].language) * ONE_SECOND
              IN  /\ stored <= accrued
                  /\ stored > accrued - ONE_SECOND
                  /\ activeFiles'[f].timeSpent = 0]_vars

\* C38: after two seconds of ticks at half-second distances a flush stored
\* one second for one resource and no record for the other.
C38_Witness ==
    /\ FlushStep(lastOp)
    /\ now = 2 * ONE_SECOND
    /\ Len(activities) = 1
    /\ activities[1].timestamp = now
    /\ activities[1].time = 1
    /\ DOMAIN activeFiles = Files

\* a tick that added time to the focused resource's ledger entry
CreditStep(op) == op.op = "tickTime" /\ op.outcome = "accrued"

\* C39: a tick credits a resource only time during which that resource was
\* focused: a tick that fires at the clock value at which the focus moved to
\* the resource (from no resource or from another one) credits it nothing,
\* and no tick changes the ledger entry of a resource that is not focused.
C39_CreditOnlyWhileFocused ==
    [][CreditStep(lastOp') =>
          /\ (lastOp.op = "onDidChangeActiveTextEditor" /\ lastOp.moved) =>
                 lastOp'.added = 0
          /\ \A f \in DOMAIN activeFiles :
                 f # currentActiveFile => activeFiles'[f] = activeFiles[f]]_vars

\* the tracker constructed while a document may already be the editor's
\* active one; after that edits, focus changes, ticks and the clock
ActiveSpecInit ==
    /\ BufferInit
    /\ TrackerInit(0)
    /\ windowFocused = TRUE
    /\ docs = {"a.ts"}
    /\ edits = {<<TypedNewline>>}
    /\ hostActive \in docs \cup {""}
    /\ ExtInit
    /\ lastOp = [op |-> "init"]
ActiveNext ==
    \/ TickTime
    \/ OnDidChangeTextDocument
    \/ OnDidChangeActiveTextEditor
    \/ TrackerAdvance
SpecActive == ActiveSpecInit /\ [][ActiveNext]_vars

\* the tick fires while the host is focused, a file is the editor's active
\* document, activity was registered within the idle threshold, time has
\* passed since the previous tick and the interval cap leaves room for it
TrackableTick(op) ==
    /\ op.op = "tickTime"
    /\ windowFocused
    /\ hostActive # ""
    /\ now - lastActivityTime <= INACTIVITY_THRESHOLD
    /\ now > lastTickTime
    /\ intervalTimeAccumulated + TimeToAdd(now - lastTickTime)
           <= MAX_TIME_PER_SAVE_INTERVAL

\* C40: whenever the host is focused, a file is the editor's active document
\* and activity was registered within the idle threshold, a tick below the
\* interval cap accrues its time to that document, also when the document
\* was already active at construction or is edited without a focus change.
C40_ActiveDocumentAccrues ==
    [][TrackableTick(lastOp') =>
          /\ lastOp'.outcome = "accrued"
          /\ hostActive \in DOMAIN activeFiles'
          /\ activeFiles'[hostActive].timeSpent > 0]_vars

====
